---- MODULE Spec2Model ----
(***************************************************************************)
(* Maintenance Debt Index: the decay calculator (DebtEngine) and the score *)
(* normalizer (MDIScoreCalculator) of backend/app/core/debt_engine.py,     *)
(* with the configuration of backend/app/core/config.py.                   *)
(*                                                                         *)
(* Number representation.  Python floats are fixed-point integers:         *)
(*   - a multiplier, rate or ratio x is the integer x * SCALE;             *)
(*   - an amount of money is an integer number of cents (CENTS per unit);  *)
(*   - a score is an integer number of tenths (the code rounds the score   *)
(*     to one decimal place);                                              *)
(*   - a date is a record [day], a datetime a record [day, hour], a        *)
(*     timedelta a number of days;                                         *)
(*   - an Optional value is None or Some(v).                               *)
(* Products are rounded to the nearest representable value, as float       *)
(* arithmetic rounds to the nearest double.                                 *)
(***************************************************************************)
EXTENDS Integers, Sequences, FiniteSets, TLC

VARIABLES
    call,            \* the operation in progress or last requested, with its arguments
    ret,             \* what it returned
    issues,          \* table issues: the rows in the order of their ids
    now,             \* the clock: datetime.utcnow(), whose date is date.today()
    debt_snapshots,  \* table debt_snapshots: the committed rows
    ward_scores,     \* table ward_scores: the committed rows
    city_scores,     \* table city_scores: the committed rows
    writers,         \* the requests that are part-way through a snapshot save
    batch            \* the progress of a batch recompute

dataVars == <<issues, now>>
storeVars == <<debt_snapshots, ward_scores, city_scores>>
serviceVars == <<dataVars, storeVars, writers, batch>>
vars == <<call, ret, serviceVars>>

(***************************************************************************)
(* Bounds of the model.                                                    *)
(***************************************************************************)
\* calculate_decay_cost is called with delay_days in -1..MaxDelay and LargeDelay
MaxDelay == 130
\* a delay the size the specification names as "a large bound"
LargeDelay == 10000
\* report dates are the days 0..MaxReportDay
MaxReportDay == 1
\* calculate_debt is called with current_date on the days 0..MaxDay
MaxDay == 60
\* math.pow is saturated at PowCeil (x 1.0); min(..., max_multiplier) discards the rest
PowCeil == 50
\* calculate_score is called with total_debt = k * DebtStep cents, k in -2..MaxDebtSteps
MaxDebtSteps == 250
\* calculate_from_debts is called with lists of at most MaxResults debt results
MaxResults == 2

(***************************************************************************)
(* Fixed-point arithmetic.                                                 *)
(***************************************************************************)
SCALE == 10000
CENTS == 100
TENTHS == 10

Min(a, b) == IF a <= b THEN a ELSE b
Max(a, b) == IF a >= b THEN a ELSE b

\* a * b for fixed-point b (a in any unit), rounded to the nearest unit of a;
\* the operands are split so that no intermediate product leaves 32 bits
FxMul(a, b) ==
    LET ah == a \div SCALE
        al == a % SCALE
        bh == b \div SCALE
        bl == b % SCALE
    IN  ah * bh * SCALE + ah * bl + al * bh + (al * bl + SCALE \div 2) \div SCALE

\* dict.get(key, default)
DictGet(d, k, default) == IF k \in DOMAIN d THEN d[k] ELSE default

\* str.lower() on the strings the model passes in
LowerTable ==
    [ s \in {"ROAD", "Bridge", "HIGH", "Critical"} |->
        CASE s = "ROAD" -> "road"
          [] s = "Bridge" -> "bridge"
          [] s = "HIGH" -> "high"
          [] s = "Critical" -> "critical" ]

Lower(s) == IF s \in DOMAIN LowerTable THEN LowerTable[s] ELSE s

(***************************************************************************)
(* config.py                                                               *)
(***************************************************************************)
DEFAULT_DECAY_RATE == (2 * SCALE) \div 100
MAX_DEBT_MULTIPLIER == 10 * SCALE

SLA_ROAD_DAYS == 14
SLA_DRAIN_DAYS == 7
SLA_STREETLIGHT_DAYS == 3
SLA_BRIDGE_DAYS == 21
SLA_SIDEWALK_DAYS == 10
SLA_DEFAULT_DAYS == 7

sla_mapping ==
    [ road |-> SLA_ROAD_DAYS,
      drain |-> SLA_DRAIN_DAYS,
      streetlight |-> SLA_STREETLIGHT_DAYS,
      bridge |-> SLA_BRIDGE_DAYS,
      sidewalk |-> SLA_SIDEWALK_DAYS ]

\* mutant: an unmapped asset type gets the road SLA instead of the default
get_sla_days_RoadDefault(asset_type) ==
    DictGet(sla_mapping, Lower(asset_type), SLA_ROAD_DAYS)

get_sla_days(asset_type) == DictGet(sla_mapping, Lower(asset_type), SLA_DEFAULT_DAYS)

\* mutant: the multipliers of medium and high are exchanged
SEVERITY_MULTIPLIERS_Swapped ==
    [ low |-> SCALE,
      medium |-> 2 * SCALE,
      high |-> (3 * SCALE) \div 2,
      critical |-> 3 * SCALE ]

SEVERITY_MULTIPLIERS ==
    [ low |-> SCALE,
      medium |-> (3 * SCALE) \div 2,
      high |-> 2 * SCALE,
      critical |-> 3 * SCALE ]

(***************************************************************************)
(* debt_engine.py: DebtEngine                                              *)
(***************************************************************************)
decay_rate == DEFAULT_DECAY_RATE
max_multiplier == MAX_DEBT_MULTIPLIER

\* math.pow(x, n) by n multiplications by x, each rounded, saturating at PowCeil.
\* The multiplications are grouped in blocks of 2^k, so that the evaluation
\* nests log(n) deep and not n deep; the product is the same.
PowStep(acc, x) == Min(FxMul(acc, x), PowCeil * SCALE)

\* acc * x^(2^k)
PowBlock[acc \in Nat, x \in Nat, k \in Nat] ==
    IF acc >= PowCeil * SCALE THEN acc
    ELSE IF k = 0 THEN PowStep(acc, x)
    ELSE PowBlock[PowBlock[acc, x, k - 1], x, k - 1]

\* acc * x^(n * 2^k)
PowLoop[acc \in Nat, x \in Nat, n \in Nat, k \in Nat] ==
    IF n = 0 THEN acc
    ELSE PowLoop[IF n % 2 = 1 THEN PowBlock[acc, x, k] ELSE acc, x, n \div 2, k + 1]

math_pow(x, n) == PowLoop[SCALE, x, n, 0]

\* datetime.date and datetime.datetime
Date(d) == [day |-> d]
Datetime(d, h) == [day |-> d, hour |-> h]

\* isinstance(x, datetime)
IsDatetime(x) == "hour" \in DOMAIN x

\* x.date() if isinstance(x, datetime) else x
AsDate(x) == IF IsDatetime(x) THEN Date(x.day) ELSE x

\* x + timedelta(days=n)
PlusDays(x, n) == [x EXCEPT !.day = @ + n]

calculate_expected_fix_date(report_date, asset_type) ==
    PlusDays(report_date, get_sla_days(asset_type))

\* mutant: the expected fix date itself counts as the first day of delay
calculate_delay_days_Inclusive(current_date, expected_fix_date) ==
    IF current_date.day < expected_fix_date.day THEN 0
    ELSE current_date.day - expected_fix_date.day + 1

\* both arguments are dates: calculate_debt converts before it calls
calculate_delay_days(current_date, expected_fix_date) ==
    IF current_date.day <= expected_fix_date.day THEN 0
    ELSE current_date.day - expected_fix_date.day

\* mutant: the multiplier is not capped
calculate_decay_cost_NoCap(base_cost, delay_days, severity) ==
    IF delay_days <= 0 THEN <<base_cost, SCALE>>
    ELSE
        LET severity_mult == DictGet(SEVERITY_MULTIPLIERS, Lower(severity), SCALE)
            raw_multiplier == math_pow(SCALE + decay_rate, delay_days)
            growth_portion == raw_multiplier - SCALE
            adjusted_growth == FxMul(growth_portion, severity_mult)
            effective_multiplier == SCALE + adjusted_growth
            decay_cost == FxMul(base_cost, effective_multiplier)
        IN  <<decay_cost, effective_multiplier>>

\* mutant: the severity scales the whole raw multiplier, not only its growth
calculate_decay_cost_ScaleAll(base_cost, delay_days, severity) ==
    IF delay_days <= 0 THEN <<base_cost, SCALE>>
    ELSE
        LET severity_mult == DictGet(SEVERITY_MULTIPLIERS, Lower(severity), SCALE)
            raw_multiplier == math_pow(SCALE + decay_rate, delay_days)
            effective_multiplier == FxMul(raw_multiplier, severity_mult)
            capped_multiplier == Min(effective_multiplier, max_multiplier)
            decay_cost == FxMul(base_cost, capped_multiplier)
        IN  <<decay_cost, capped_multiplier>>

\* returns <<decay_cost, debt_multiplier>>
calculate_decay_cost(base_cost, delay_days, severity) ==
    IF delay_days <= 0 THEN <<base_cost, SCALE>>
    ELSE
        LET severity_mult == DictGet(SEVERITY_MULTIPLIERS, Lower(severity), SCALE)
            raw_multiplier == math_pow(SCALE + decay_rate, delay_days)
            growth_portion == raw_multiplier - SCALE
            adjusted_growth == FxMul(growth_portion, severity_mult)
            effective_multiplier == SCALE + adjusted_growth
            capped_multiplier == Min(effective_multiplier, max_multiplier)
            decay_cost == FxMul(base_cost, capped_multiplier)
        IN  <<decay_cost, capped_multiplier>>

\* mutant: the debt is the whole current cost
calculate_debt_WholeCost(base_cost, report_date, asset_type, current_date, severity) ==
    LET expected_fix_date ==
            calculate_expected_fix_date(AsDate(report_date), asset_type)
        delay_days == calculate_delay_days(AsDate(current_date), expected_fix_date)
        cost == calculate_decay_cost(base_cost, delay_days, severity)
    IN  [ base_cost |-> base_cost,
          current_cost |-> cost[1],
          maintenance_debt |-> cost[1],
          debt_multiplier |-> cost[2],
          delay_days |-> delay_days,
          expected_fix_date |-> expected_fix_date,
          is_overdue |-> delay_days > 0,
          decay_rate_used |-> decay_rate ]

calculate_debt(base_cost, report_date, asset_type, current_date, severity) ==
    LET expected_fix_date ==
            calculate_expected_fix_date(AsDate(report_date), asset_type)
        delay_days == calculate_delay_days(AsDate(current_date), expected_fix_date)
        cost == calculate_decay_cost(base_cost, delay_days, severity)
        current_cost == cost[1]
        multiplier == cost[2]
        maintenance_debt == current_cost - base_cost
    IN  [ base_cost |-> base_cost,
          current_cost |-> current_cost,
          maintenance_debt |-> maintenance_debt,
          debt_multiplier |-> multiplier,
          delay_days |-> delay_days,
          expected_fix_date |-> expected_fix_date,
          is_overdue |-> delay_days > 0,
          decay_rate_used |-> decay_rate ]

(***************************************************************************)
(* debt_engine.py: MDIScoreCalculator                                      *)
(*                                                                         *)
(* math.log is a binary logarithm of a binary fixed-point number (unit     *)
(* 1 / BIN_ONE), returned in units of 1 / LOG_ONE.  calculate_score uses   *)
(* only the quotient of two logarithms, which does not depend on the base. *)
(***************************************************************************)
BIN_BITS == 20
BIN_ONE == 2 ^ BIN_BITS
BIN_HALF == 2 ^ (BIN_BITS \div 2)
LOG_BITS == 12
LOG_ONE == 2 ^ LOG_BITS

\* a / b as a binary fixed-point number, by long division (b > 0)
RECURSIVE BinDivLoop(_, _, _, _)
BinDivLoop(q, r, b, n) ==
    IF n = 0 THEN q
    ELSE BinDivLoop(2 * q + (2 * r) \div b, (2 * r) % b, b, n - 1)

BinDiv(a, b) == BinDivLoop(a \div b, a % b, b, BIN_BITS)

\* z * z for binary fixed-point z, the operand split to stay within 32 bits
BinSquare(z) ==
    LET zh == z \div BIN_HALF
        zl == z % BIN_HALF
    IN  zh * zh + (2 * zh * zl + (zl * zl) \div BIN_HALF) \div BIN_HALF

\* the integer part of log2: y is halved until it is below 2
RECURSIVE LogInt(_)
LogInt(y) == IF y >= 2 * BIN_ONE THEN 1 + LogInt(y \div 2) ELSE 0

RECURSIVE LogMantissa(_)
LogMantissa(y) == IF y >= 2 * BIN_ONE THEN LogMantissa(y \div 2) ELSE y

\* the fractional bits of log2 of z in [1, 2), by repeated squaring
RECURSIVE LogFrac(_, _, _)
LogFrac(z, bits, n) ==
    IF n = 0 THEN bits
    ELSE LET sq == BinSquare(z)
         IN  IF sq >= 2 * BIN_ONE
             THEN LogFrac(sq \div 2, 2 * bits + 1, n - 1)
             ELSE LogFrac(sq, 2 * bits, n - 1)

\* math.log(y) for y >= 1
math_log(y) == LogInt(y) * LOG_ONE + LogFrac(LogMantissa(y), 0, LOG_BITS)

\* a / b rounded to the nearest integer (b > 0)
RoundDiv(a, b) == (2 * a + b) \div (2 * b)

CATEGORIES ==
    << <<90, "Excellent", "Infrastructure is well-maintained with minimal debt">>,
       <<70, "Good", "Minor maintenance delays, debt is manageable">>,
       <<50, "Fair", "Significant delays accumulating, attention needed">>,
       <<30, "Poor", "Critical maintenance backlog, urgent action required">>,
       <<0, "Critical", "Severe neglect, emergency intervention needed">> >>

\* mutant: a score equal to a threshold falls into the category below it
RECURSIVE CategoryFrom_Strict(_, _)
CategoryFrom_Strict(i, score) ==
    IF i > Len(CATEGORIES)
    THEN <<"Critical", "Severe neglect, emergency intervention needed">>
    ELSE IF score > CATEGORIES[i][1] * TENTHS
         THEN <<CATEGORIES[i][2], CATEGORIES[i][3]>>
         ELSE CategoryFrom_Strict(i + 1, score)

\* returns <<category, description>>: the loop of _get_category from entry i on
RECURSIVE CategoryFrom(_, _)
CategoryFrom(i, score) ==
    IF i > Len(CATEGORIES)
    THEN <<"Critical", "Severe neglect, emergency intervention needed">>
    ELSE IF score >= CATEGORIES[i][1] * TENTHS
         THEN <<CATEGORIES[i][2], CATEGORIES[i][3]>>
         ELSE CategoryFrom(i + 1, score)

get_category(score) == CategoryFrom(1, score)

\* the result returned when there is no base cost
NoBaseCostResult ==
    [ score |-> 100 * TENTHS,
      category |-> "Excellent",
      description |-> "No maintenance debt - infrastructure is pristine",
      total_debt |-> 0,
      total_base_cost |-> 0 ]

\* MDIScoreResult(score, category, description, total_debt, total_base_cost)
MDIScoreResult(score, total_debt, total_base_cost) ==
    LET cat == get_category(score)
    IN  [ score |-> score,
          category |-> cat[1],
          description |-> cat[2],
          total_debt |-> total_debt,
          total_base_cost |-> total_base_cost ]

\* total_debt / total_base_cost if total_base_cost > 0 else 0
DebtRatio(total_debt, total_base_cost) ==
    IF total_base_cost > 0 THEN BinDiv(total_debt, total_base_cost) ELSE 0

log_max == math_log((MAX_DEBT_MULTIPLIER \div SCALE) * BIN_ONE)

\* mutant: no base cost is scored as the worst case
calculate_score_ZeroBaseWorst(total_debt, total_base_cost) ==
    IF total_base_cost <= 0
    THEN [NoBaseCostResult EXCEPT !.score = 0, !.category = "Critical"]
    ELSE
        LET debt_ratio == DebtRatio(total_debt, total_base_cost)
            log_debt == math_log(BIN_ONE + debt_ratio)
            unrounded == IF debt_ratio <= 0
                         THEN 100 * TENTHS * log_max
                         ELSE Max(0, 100 * TENTHS * (log_max - log_debt))
        IN  MDIScoreResult(RoundDiv(unrounded, log_max), total_debt, total_base_cost)

\* mutant: the score is not clamped at 0
calculate_score_NoClamp(total_debt, total_base_cost) ==
    IF total_base_cost <= 0
    THEN NoBaseCostResult
    ELSE
        LET debt_ratio == DebtRatio(total_debt, total_base_cost)
            log_debt == math_log(BIN_ONE + debt_ratio)
            unrounded == IF debt_ratio <= 0
                         THEN 100 * TENTHS * log_max
                         ELSE 100 * TENTHS * (log_max - log_debt)
        IN  MDIScoreResult(RoundDiv(unrounded, log_max), total_debt, total_base_cost)

\* mutant: the score is 100 * normalized instead of 100 * (1 - normalized)
calculate_score_Inverted(total_debt, total_base_cost) ==
    IF total_base_cost <= 0
    THEN NoBaseCostResult
    ELSE
        LET debt_ratio == DebtRatio(total_debt, total_base_cost)
            log_debt == math_log(BIN_ONE + debt_ratio)
            unrounded == IF debt_ratio <= 0
                         THEN 100 * TENTHS * log_max
                         ELSE Max(0, 100 * TENTHS * log_debt)
        IN  MDIScoreResult(RoundDiv(unrounded, log_max), total_debt, total_base_cost)

calculate_score(total_debt, total_base_cost) ==
    IF total_base_cost <= 0
    THEN NoBaseCostResult
    ELSE
        LET debt_ratio == DebtRatio(total_debt, total_base_cost)
            log_debt == math_log(BIN_ONE + debt_ratio)
            \* 100 * (1 - normalized) in tenths, as a fraction over log_max
            unrounded == IF debt_ratio <= 0
                         THEN 100 * TENTHS * log_max
                         ELSE Max(0, 100 * TENTHS * (log_max - log_debt))
        IN  MDIScoreResult(RoundDiv(unrounded, log_max), total_debt, total_base_cost)

\* sum(f(r) for r in debt_results), for the field f
RECURSIVE SumField(_, _)
SumField(debt_results, f) ==
    IF debt_results = <<>> THEN 0
    ELSE Head(debt_results)[f] + SumField(Tail(debt_results), f)

calculate_from_debts(debt_results) ==
    IF debt_results = <<>> THEN calculate_score(0, 0)
    ELSE calculate_score(SumField(debt_results, "maintenance_debt"),
                         SumField(debt_results, "base_cost"))

(***************************************************************************)
(* The inputs of the calls.                                                *)
(***************************************************************************)
Money(units) == units * CENTS

BaseCosts == {Money(1), Money(2500) + 50, Money(10000)}
Severities == {"low", "medium", "high", "critical"}
SeverityInputs == Severities \cup {"HIGH", "urgent"}
AssetTypeInputs ==
    {"road", "drain", "streetlight", "bridge", "sidewalk", "water_pipe", "ROAD", "canal"}
DelayInputs == (-1 .. MaxDelay) \cup {LargeDelay}

NoResult == [kind |-> "none"]

\* dates, and datetimes late and early in the day
ReportDates ==
    {Date(d) : d \in 0 .. MaxReportDay} \cup {Datetime(d, 23) : d \in 0 .. MaxReportDay}
CurrentDates ==
    {Date(d) : d \in 0 .. MaxDay} \cup {Datetime(d, 1) : d \in 0 .. MaxDay}

DecayCostCalls ==
    [ op : {"calculate_decay_cost"}, base_cost : BaseCosts,
      delay_days : DelayInputs, severity : SeverityInputs ]

DebtCalls ==
    [ op : {"calculate_debt"}, base_cost : {Money(10000)},
      report_date : ReportDates, asset_type : AssetTypeInputs,
      current_date : CurrentDates, severity : SeverityInputs ]

\* total_base_cost: negative, zero and positive
BaseTotals == {0 - Money(1), 0, Money(10), Money(10) + 50, Money(200)}
DebtStep == 50
DebtTotals == {k * DebtStep : k \in -2 .. MaxDebtSteps}

ScoreCalls ==
    [ op : {"calculate_score"}, total_debt : DebtTotals, total_base_cost : BaseTotals ]

\* the debt results of issues reported on day 0 for a streetlight
IssueDebts ==
    { calculate_debt(b, Date(0), "streetlight", Date(d), v) :
        b \in {Money(100), Money(10000)}, d \in {3, 13, 63, 133}, v \in {"low", "critical"} }

FromDebtsCalls ==
    [ op : {"calculate_from_debts"},
      debt_results : UNION { [1 .. n -> IssueDebts] : n \in 0 .. MaxResults } ]

\* scores in tenths, with a margin on both sides of [0, 100]
ScoreInputs == (0 - 5) .. (100 * TENTHS + 5)

CategoryCalls == [ op : {"get_category"}, score : ScoreInputs ]

(***************************************************************************)
(* The state machine: a caller holds the arguments of one call (Init) and  *)
(* the called function returns its result.                                 *)
(***************************************************************************)
Init ==
    /\ call \in DecayCostCalls \cup DebtCalls \cup ScoreCalls \cup CategoryCalls
                 \cup FromDebtsCalls
    /\ ret = NoResult
    \* no database is attached: the engine and the calculator use none
    /\ issues = <<>>
    /\ now = Datetime(0, 0)
    /\ debt_snapshots = <<>>
    /\ ward_scores = <<>>
    /\ city_scores = <<>>
    /\ writers = <<>>
    /\ batch = NoResult

CalculateDecayCost ==
    /\ call.op = "calculate_decay_cost"
    /\ ret = NoResult
    /\ LET r == calculate_decay_cost(call.base_cost, call.delay_days, call.severity)
       IN  ret' = [kind |-> "decay_cost", decay_cost |-> r[1], debt_multiplier |-> r[2]]
    /\ UNCHANGED <<call, serviceVars>>

CalculateDebt ==
    /\ call.op = "calculate_debt"
    /\ ret = NoResult
    /\ ret' = [kind |-> "debt",
               value |-> calculate_debt(call.base_cost, call.report_date,
                                        call.asset_type, call.current_date,
                                        call.severity)]
    /\ UNCHANGED <<call, serviceVars>>

CalculateScore ==
    /\ call.op = "calculate_score"
    /\ ret = NoResult
    /\ ret' = [kind |-> "score",
               value |-> calculate_score(call.total_debt, call.total_base_cost)]
    /\ UNCHANGED <<call, serviceVars>>

CalculateFromDebts ==
    /\ call.op = "calculate_from_debts"
    /\ ret = NoResult
    /\ ret' = [kind |-> "score", value |-> calculate_from_debts(call.debt_results)]
    /\ UNCHANGED <<call, serviceVars>>

GetCategory ==
    /\ call.op = "get_category"
    /\ ret = NoResult
    /\ LET c == get_category(call.score)
       IN  ret' = [kind |-> "category", category |-> c[1], description |-> c[2]]
    /\ UNCHANGED <<call, serviceVars>>

Next ==
    \/ CalculateDecayCost
    \/ CalculateDebt
    \/ CalculateScore
    \/ CalculateFromDebts
    \/ GetCategory

Spec == Init /\ [][Next]_vars

(***************************************************************************)
(* Helpers on sequences and on the tables.                                 *)
(***************************************************************************)
RECURSIVE SeqSum(_)
SeqSum(s) == IF s = <<>> THEN 0 ELSE Head(s) + SeqSum(Tail(s))

\* Optional[...]
None == <<>>
Some(v) == <<v>>

\* a or b, for an Optional number a: None and 0 are both falsy
OrElse(a, b) == IF a # None /\ a[1] # 0 THEN a[1] ELSE b

\* max(s, default=d)
RECURSIVE SeqMax(_, _)
SeqMax(s, d) == IF s = <<>> THEN d ELSE Max(Head(s), SeqMax(Tail(s), Head(s)))

\* the sequences of s one after the other
RECURSIVE Concat(_)
Concat(s) == IF s = <<>> THEN <<>> ELSE Head(s) \o Concat(Tail(s))

\* the one element of a set of one element.  Only({e(x) : x \in {v}}) is e(v)
\* with v evaluated once, however often e uses it
Only(S) == CHOOSE x \in S : TRUE

\* [f(x) for x in s]
Map(s, f(_)) ==
    Only({ LET g[k \in 0 .. Len(v)] ==
                   IF k = 0 THEN <<>> ELSE Append(g[k - 1], f(v[k]))
           IN  g[Len(v)] : v \in {s} })

\* sorted(s, key=key, reverse=reverse): a stable sort
SortedBy(s, key(_), reverse) ==
    LET goes_first(e, x) == IF reverse THEN key(e) >= key(x) ELSE key(e) <= key(x)
        sorted[n \in 0 .. Len(s)] ==
            IF n = 0 THEN <<>>
            ELSE Only({ SelectSeq(done, LAMBDA e : goes_first(e, s[n])) \o <<s[n]>>
                            \o SelectSeq(done, LAMBDA e : ~goes_first(e, s[n])) :
                        done \in { sorted[n - 1] } })
    IN  sorted[Len(s)]

\* sum(...) / len(...) as a fixed-point number
Average(s) == RoundDiv(SeqSum(s) * SCALE, Len(s))

\* query.first(): the first of the rows in the order of the table, or None
First(rows) == IF rows = <<>> THEN None ELSE Some(rows[1])

\* the primary key of query.first(): the position in the table of the first
\* of the rows that match, or None
FirstId(table, match(_)) ==
    IF \E k \in DOMAIN table : match(table[k])
    THEN Some(CHOOSE k \in DOMAIN table :
                  match(table[k]) /\ \A j \in 1 .. k - 1 : ~match(table[j]))
    ELSE None

(***************************************************************************)
(* Differences of scores.  A score is round(x, 1), the double nearest to a *)
(* whole number k of tenths; its error against k / 10 is FloatErr(k), in   *)
(* units of 2^-56 / 10.  The difference of two scores is compared with 5   *)
(* as the double subtraction gives it: when the two numbers of tenths are  *)
(* exactly 5.0 apart, the difference of the doubles is the difference of   *)
(* their errors, and it rounds away from 5 when it is more than half a     *)
(* unit in the last place of 5 (2^-51).                                    *)
(***************************************************************************)
\* the binary exponent of k / 10, plus 4:  10 * 2^e <= 16 * k < 10 * 2^(e + 1)
RECURSIVE FloatExpFrom(_, _)
FloatExpFrom(k, e) == IF 10 * 2 ^ (e + 1) <= 16 * k THEN FloatExpFrom(k, e + 1) ELSE e

\* the rounding error of the double nearest to k / 10
FloatErr(k) ==
    IF k = 0 THEN 0
    ELSE LET e == FloatExpFrom(k, 0)
             \* 2^(56 - e) modulo 10
             p == <<2, 4, 8, 6>>[((56 - e - 1) % 4) + 1]
             r == ((k % 10) * p) % 10
         IN  (IF r < 5 THEN 0 - r ELSE 10 - r) * 2 ^ e

\* a - b > 5, for scores a and b
FloatDiffAbove5(a, b) ==
    IF a - b # 5 * TENTHS THEN a - b > 5 * TENTHS
    \* more than half a unit in the last place of 5.0
    ELSE FloatErr(a) - FloatErr(b) > 10 * 2 ^ 5

(***************************************************************************)
(* The database: models/asset.py, models/ward.py, models/issue.py.         *)
(* Wards and assets are not changed by any operation modelled here; issues *)
(* are rows of the variable issues, an issue's id being its position.      *)
(***************************************************************************)
\* ward ids; ward 3 has no asset
Wards == <<1, 2, 3, 4>>

\* assets by id; ward 2 has an asset that is not active, ward 4 has no other
Assets ==
    << [ id |-> 1, ward_id |-> 1, asset_type |-> "streetlight", status |-> "active",
         base_repair_cost |-> Money(5000) ],
       [ id |-> 2, ward_id |-> 1, asset_type |-> "road", status |-> "active",
         base_repair_cost |-> Money(10000) ],
       [ id |-> 3, ward_id |-> 2, asset_type |-> "drain", status |-> "active",
         base_repair_cost |-> Money(8000) ],
       [ id |-> 4, ward_id |-> 2, asset_type |-> "bridge", status |-> "decommissioned",
         base_repair_cost |-> Money(20000) ],
       [ id |-> 5, ward_id |-> 4, asset_type |-> "sidewalk",
         status |-> "under_maintenance", base_repair_cost |-> Money(3000) ] >>

\* an id that no asset, no issue and no ward has
MissingId == 9

\* db.query(Asset).filter(Asset.id == asset_id).first()
AssetExists(asset_id) == asset_id \in DOMAIN Assets

\* db.query(Issue).filter(Issue.id == issue_id).first()
IssueExists(issue_id) == issue_id \in DOMAIN issues

\* the days on which the clock is read
Days == <<0, 30>>

\* today, and the time of day at which requests arrive
Today == Date(now.day)
HourOfDay == 9

\* a > b for datetimes
DatetimeAfter(a, b) == a.day > b.day \/ (a.day = b.day /\ a.hour > b.hour)

\* datetime.combine(d, datetime.min.time())
AtMidnight(d) == Datetime(d.day, 0)

\* Issue.is_overdue
Issue_is_overdue(issue) ==
    IF issue.is_resolved THEN FALSE
    ELSE IF issue.expected_fix_date = None THEN FALSE
    ELSE DatetimeAfter(now, issue.expected_fix_date[1])

\* asset.issues
AssetIssues(asset_id) == SelectSeq(issues, LAMBDA i : i.asset_id = asset_id)

(***************************************************************************)
(* services/debt_service.py: DebtService                                   *)
(***************************************************************************)
calculate_issue_debt(issue, current_date) ==
    LET asset == Assets[issue.asset_id]
        base_cost == OrElse(issue.estimated_repair_cost, asset.base_repair_cost)
    IN  calculate_debt(base_cost, AsDate(issue.report_date), asset.asset_type,
                       current_date, issue.severity)

\* (issue_debts, total_debt, total_base_cost) for the debt results of the issues
AssetDebtTotals(issue_debts) ==
    [ issue_debts |-> issue_debts,
      total_debt |-> SumField(issue_debts, "maintenance_debt"),
      total_base_cost |-> SumField(issue_debts, "base_cost") ]

\* mutant: the issues already resolved are counted too
calculate_asset_debt_AllIssues(asset_id, current_date) ==
    Only({ AssetDebtTotals(issue_debts) :
        issue_debts \in { Map(AssetIssues(asset_id),
                              LAMBDA i : calculate_issue_debt(i, current_date)) } })

\* returns (issue_debts, total_debt, total_base_cost)
calculate_asset_debt(asset_id, current_date) ==
    Only({ AssetDebtTotals(issue_debts) :
        issue_debts \in { Map(SelectSeq(AssetIssues(asset_id), LAMBDA i : ~i.is_resolved),
                              LAMBDA i : calculate_issue_debt(i, current_date)) } })

\* mutant: the cached multiplier is left as it was
update_issue_debt_tracking_StaleMultiplier(issue, debt_result) ==
    [ issue EXCEPT
        !.current_delay_days = debt_result.delay_days,
        !.current_debt_amount = debt_result.maintenance_debt,
        !.expected_fix_date = Some(AtMidnight(debt_result.expected_fix_date)) ]

\* the issue with its cached debt fields set from debt_result
update_issue_debt_tracking(issue, debt_result) ==
    [ issue EXCEPT
        !.current_delay_days = debt_result.delay_days,
        !.current_debt_amount = debt_result.maintenance_debt,
        !.current_debt_multiplier = debt_result.debt_multiplier,
        !.expected_fix_date = Some(AtMidnight(debt_result.expected_fix_date)) ]

(***************************************************************************)
(* api/routes/issues.py.  The issue code, title, category and reporter of  *)
(* an issue, and the notes and actual cost of a resolution, are not        *)
(* modelled: no debt depends on them.                                      *)
(***************************************************************************)
\* the most issues the table holds
MaxIssues == 2

HTTPException(status_code) == [kind |-> "http_error", status_code |-> status_code]

IssueResponse(issue) ==
    [kind |-> "issue", value |-> issue, is_overdue |-> Issue_is_overdue(issue)]

\* the bodies of POST /issues
IssueCreateInputs ==
    [ asset_id : {1, 2, 4, MissingId},
      severity : {"critical"},
      estimated_repair_cost : {None, Some(0), Some(Money(2000))},
      report_date : {None} ]

\* the bodies of PUT /issues/{id}: the fields that are set
IssueUpdateInputs ==
    { [estimated_repair_cost |-> e] : e \in {None, Some(0)} }

\* setattr(issue, field, value) for every field that is set
SetFields(issue, update_data) ==
    [ f \in DOMAIN issue |-> IF f \in DOMAIN update_data THEN update_data[f] ELSE issue[f] ]

\* the row that create_issue stores for the body issue_in at the time utcnow,
\* its debt fields as of that day
NewIssue(issue_in, id, utcnow) ==
    LET asset == Assets[issue_in.asset_id]
        report_date == IF issue_in.report_date # None
                       THEN issue_in.report_date[1] ELSE utcnow
        sla_days == get_sla_days(asset.asset_type)
        estimated_cost == OrElse(issue_in.estimated_repair_cost, asset.base_repair_cost)
        issue == [ id |-> id,
                   asset_id |-> issue_in.asset_id,
                   severity |-> issue_in.severity,
                   estimated_repair_cost |-> Some(estimated_cost),
                   report_date |-> report_date,
                   expected_fix_date |-> Some(PlusDays(report_date, sla_days)),
                   resolution_date |-> None,
                   is_resolved |-> FALSE,
                   current_delay_days |-> 0,
                   current_debt_amount |-> 0,
                   current_debt_multiplier |-> SCALE ]
    IN  update_issue_debt_tracking(issue, calculate_issue_debt(issue, AsDate(utcnow)))

CreateIssue ==
    \E issue_in \in IssueCreateInputs :
        /\ call' = [op |-> "create_issue", issue_in |-> issue_in]
        /\ IF ~AssetExists(issue_in.asset_id)
           THEN /\ ret' = HTTPException(404)
                /\ UNCHANGED issues
           ELSE /\ Len(issues) < MaxIssues
                /\ issues' = Append(issues, NewIssue(issue_in, Len(issues) + 1, now))
                /\ ret' = IssueResponse(issues'[Len(issues')])
        /\ UNCHANGED <<now, storeVars, writers, batch>>

UpdateIssue ==
    \E issue_id \in (1 .. MaxIssues) \cup {MissingId}, issue_in \in IssueUpdateInputs :
        /\ call' = [op |-> "update_issue", issue_id |-> issue_id, issue_in |-> issue_in]
        /\ IF ~IssueExists(issue_id)
           THEN /\ ret' = HTTPException(404)
                /\ UNCHANGED issues
           ELSE IF issues[issue_id].is_resolved
           THEN /\ ret' = HTTPException(400)
                /\ UNCHANGED issues
           ELSE LET issue == SetFields(issues[issue_id], issue_in)
                    debt_result == calculate_issue_debt(issue, Today)
                    tracked == update_issue_debt_tracking(issue, debt_result)
                IN  /\ issues' = [issues EXCEPT ![issue_id] = tracked]
                    /\ ret' = IssueResponse(tracked)
        /\ UNCHANGED <<now, storeVars, writers, batch>>

\* Issue.resolve
resolve(issue) == [issue EXCEPT !.is_resolved = TRUE, !.resolution_date = Some(now)]

ResolveIssue ==
    \E issue_id \in (1 .. MaxIssues) \cup {MissingId} :
        /\ call' = [op |-> "resolve_issue", issue_id |-> issue_id]
        /\ IF ~IssueExists(issue_id)
           THEN /\ ret' = HTTPException(404)
                /\ UNCHANGED issues
           ELSE IF issues[issue_id].is_resolved
           THEN /\ ret' = HTTPException(400)
                /\ UNCHANGED issues
           ELSE /\ issues' = [issues EXCEPT ![issue_id] = resolve(@)]
                /\ ret' = [IssueResponse(issues'[issue_id]) EXCEPT !.is_overdue = FALSE]
        /\ UNCHANGED <<now, storeVars, writers, batch>>

\* the clock moves on to the next of the days
Tick ==
    /\ \E k \in 1 .. Len(Days) - 1 :
           /\ now.day = Days[k]
           /\ now' = Datetime(Days[k + 1], HourOfDay)
    /\ call' = [op |-> "tick"]
    /\ ret' = NoResult
    /\ UNCHANGED <<issues, storeVars, writers, batch>>

\* mutant: the debt tracking of the issues is written back as it is calculated
CalculateAssetDebt_WritesBack ==
    \E asset_id \in DOMAIN Assets :
        /\ call' = [op |-> "calculate_asset_debt", asset_id |-> asset_id]
        /\ ret' = [kind |-> "asset_debt", value |-> calculate_asset_debt(asset_id, Today)]
        /\ issues' =
               Map(issues, LAMBDA i :
                   IF i.asset_id = asset_id /\ ~i.is_resolved
                   THEN update_issue_debt_tracking(i, calculate_issue_debt(i, Today))
                   ELSE i)
        /\ UNCHANGED <<now, storeVars, writers, batch>>

\* debt_service.calculate_asset_debt(asset) as of today
CalculateAssetDebt ==
    \E asset_id \in DOMAIN Assets :
        /\ call' = [op |-> "calculate_asset_debt", asset_id |-> asset_id]
        /\ ret' = [kind |-> "asset_debt", value |-> calculate_asset_debt(asset_id, Today)]
        /\ UNCHANGED serviceVars

(***************************************************************************)
(* services/aggregation_service.py: AggregationService                     *)
(***************************************************************************)
\* the trend of a score against the score of an earlier snapshot
\*   if change > 5: "improving" elif change < -5: "declining", else "stable"
TrendLabel(score, prev_score) ==
    IF FloatDiffAbove5(score, prev_score) THEN "improving"
    ELSE IF FloatDiffAbove5(prev_score, score) THEN "declining"
    ELSE "stable"

\* the delays of the overdue ones among the debt results
OverdueDelays(issue_debts) ==
    Map(SelectSeq(issue_debts, LAMBDA d : d.is_overdue), LAMBDA d : d.delay_days)

\* score - snapshot.mdi_score if there is a snapshot, else None
ScoreChange(score, snapshot) ==
    IF snapshot # None THEN Some(score - snapshot[1].mdi_score) ELSE None

\* the trend label: "stable" unless a snapshot says otherwise
ScoreTrend(score, snapshot) ==
    IF snapshot # None THEN Some(TrendLabel(score, snapshot[1].mdi_score))
    ELSE Some("stable")

\* the response of get_asset_mdi_score, from what it has computed and read
MDIScoreResponse(asset_id, debt, mdi_result, snapshot_7d, snapshot_30d) ==
    [ asset_id |-> asset_id,
      mdi_score |-> mdi_result.score,
      score_category |-> mdi_result.category,
      total_debt |-> debt.total_debt,
      total_base_cost |-> debt.total_base_cost,
      open_issues |-> Len(debt.issue_debts),
      overdue_issues |-> Len(OverdueDelays(debt.issue_debts)),
      max_delay_days |-> SeqMax(OverdueDelays(debt.issue_debts), 0),
      score_change_7d |-> ScoreChange(mdi_result.score, snapshot_7d),
      score_change_30d |-> ScoreChange(mdi_result.score, snapshot_30d),
      score_trend |-> ScoreTrend(mdi_result.score, snapshot_7d) ]

\* db.query(DebtSnapshot).filter(asset_id == ..., snapshot_date == ...).first()
FindDebtSnapshot(asset_id, snapshot_date) ==
    First(SelectSeq(debt_snapshots,
        LAMBDA s : s.asset_id = asset_id /\ s.snapshot_date = snapshot_date))

\* db.query(WardScore).filter(ward_id == ..., score_date == ...).first()
FindWardScore(ward_id, score_date) ==
    First(SelectSeq(ward_scores,
        LAMBDA s : s.ward_id = ward_id /\ s.score_date = score_date))

\* db.query(CityScore).filter(city_code == ..., score_date == ...).first()
FindCityScore(city_code, score_date) ==
    First(SelectSeq(city_scores,
        LAMBDA s : s.city_code = city_code /\ s.score_date = score_date))

\* returns None when there is no such asset; the asset is scored as of today
get_asset_mdi_score(asset_id) ==
    IF ~AssetExists(asset_id) THEN None
    ELSE Only({ Only({ Some(MDIScoreResponse(asset_id, debt, mdi_result,
                           FindDebtSnapshot(asset_id, PlusDays(Today, 0 - 7)),
                           FindDebtSnapshot(asset_id, PlusDays(Today, 0 - 30)))) :
                   mdi_result \in {calculate_score(debt.total_debt, debt.total_base_cost)} }) :
               debt \in {calculate_asset_debt(asset_id, Today)} })

\* mutant: the assets of every status are aggregated
ActiveAssets_AnyStatus(ward_id) == SelectSeq(Assets, LAMBDA a : a.ward_id = ward_id)

\* db.query(Asset).filter(Asset.ward_id == ward_id, Asset.status == ACTIVE).all()
ActiveAssets(ward_id) ==
    SelectSeq(Assets, LAMBDA a : a.ward_id = ward_id /\ a.status = "active")

\* mutant: a ward without active assets gets the worst score
EmptyWardResponse_WorstScore(ward_id) ==
    [ ward_id |-> ward_id,
      mdi_score |-> 0,
      score_category |-> "Critical",
      total_debt |-> 0,
      total_base_cost |-> 0,
      total_assets |-> 0,
      assets_with_issues |-> 0,
      assets_overdue |-> 0,
      open_issues |-> 0,
      overdue_issues |-> 0,
      critical_issues |-> 0,
      avg_delay_days |-> 0,
      max_delay_days |-> 0,
      score_change_7d |-> None,
      score_trend |-> None ]

\* the response for a ward without active assets; it names no trend
EmptyWardResponse(ward_id) ==
    [ ward_id |-> ward_id,
      mdi_score |-> 100 * TENTHS,
      score_category |-> "Excellent",
      total_debt |-> 0,
      total_base_cost |-> 0,
      total_assets |-> 0,
      assets_with_issues |-> 0,
      assets_overdue |-> 0,
      open_issues |-> 0,
      overdue_issues |-> 0,
      critical_issues |-> 0,
      avg_delay_days |-> 0,
      max_delay_days |-> 0,
      score_change_7d |-> None,
      score_trend |-> None ]

\* the unresolved critical issues of the assets
CriticalIssues(assets) ==
    SelectSeq(issues, LAMBDA i :
        /\ \E k \in DOMAIN assets : assets[k].id = i.asset_id
        /\ ~i.is_resolved
        /\ i.severity = "critical")

\* the response of calculate_ward_score, from what the loop over the assets
\* has added up (debts: the result of calculate_asset_debt for each asset;
\* all_delays: the delays of their overdue issues) and from the score read
WardScoreResponse(ward_id, assets, debts, all_delays, mdi_result, prev_score) ==
    [ ward_id |-> ward_id,
      mdi_score |-> mdi_result.score,
      score_category |-> mdi_result.category,
      total_debt |-> SumField(debts, "total_debt"),
      total_base_cost |-> SumField(debts, "total_base_cost"),
      total_assets |-> Len(assets),
      assets_with_issues |-> Len(SelectSeq(debts, LAMBDA d : d.issue_debts # <<>>)),
      assets_overdue |->
          Len(SelectSeq(debts, LAMBDA d : OverdueDelays(d.issue_debts) # <<>>)),
      open_issues |-> SeqSum(Map(debts, LAMBDA d : Len(d.issue_debts))),
      overdue_issues |-> Len(all_delays),
      critical_issues |-> Len(CriticalIssues(assets)),
      avg_delay_days |-> IF all_delays # <<>> THEN Average(all_delays) ELSE 0,
      max_delay_days |-> SeqMax(all_delays, 0),
      score_change_7d |-> ScoreChange(mdi_result.score, prev_score),
      score_trend |-> ScoreTrend(mdi_result.score, prev_score) ]

\* returns None when there is no such ward
calculate_ward_score(ward_id, score_date) ==
    IF \A k \in DOMAIN Wards : Wards[k] # ward_id THEN None
    ELSE IF ActiveAssets(ward_id) = <<>> THEN Some(EmptyWardResponse(ward_id))
    ELSE Only({ Only({ Some(WardScoreResponse(ward_id, ActiveAssets(ward_id), debts,
                           all_delays, mdi_result,
                           FindWardScore(ward_id, PlusDays(score_date, 0 - 7)))) :
                   all_delays \in
                       { Concat(Map(debts, LAMBDA d : OverdueDelays(d.issue_debts))) },
                   mdi_result \in
                       { calculate_score(SumField(debts, "total_debt"),
                                         SumField(debts, "total_base_cost")) } }) :
               debts \in { Map(ActiveAssets(ward_id),
                              LAMBDA a : calculate_asset_debt(a.id, score_date)) } })

\* the number of ward scores of the category
CategoryCount(scores, category) ==
    Len(SelectSeq(scores, LAMBDA w : w.score_category = category))

\* the ward scores that the loop of calculate_city_score adds up
CityWardScores(score_date) ==
    Map(SelectSeq(Map(Wards, LAMBDA w : calculate_ward_score(w, score_date)),
                  LAMBDA s : s # None),
        LAMBDA s : s[1])

\* WardRanking(rank=rank, ...) for the ward score w
WardRanking(rank, w) ==
    [ rank |-> rank,
      ward_id |-> w.ward_id,
      mdi_score |-> w.mdi_score,
      score_category |-> w.score_category,
      total_debt |-> w.total_debt,
      score_change |-> w.score_change_7d ]

\* the response of calculate_city_score, from the ward scores and the scores
\* read
CityScoreResponse(city_code, scores, mdi_result, prev_score_7d, prev_score_30d) ==
    Only({
    [ city_code |-> city_code,
      mdi_score |-> mdi_result.score,
      score_category |-> mdi_result.category,
      total_debt |-> SumField(scores, "total_debt"),
      total_base_cost |-> SumField(scores, "total_base_cost"),
      total_wards |-> Len(Wards),
      total_assets |-> SumField(scores, "total_assets"),
      total_open_issues |-> SumField(scores, "open_issues"),
      wards_excellent |-> CategoryCount(scores, "Excellent"),
      wards_good |-> CategoryCount(scores, "Good"),
      wards_fair |-> CategoryCount(scores, "Fair"),
      wards_poor |-> CategoryCount(scores, "Poor"),
      wards_critical |-> CategoryCount(scores, "Critical"),
      top_wards |->
          [ k \in 1 .. Min(5, Len(sorted_wards)) |-> WardRanking(k, sorted_wards[k]) ],
      bottom_wards |->
          [ k \in 1 .. Min(5, Len(sorted_wards)) |->
              WardRanking(Len(sorted_wards) - (k - 1),
                          sorted_wards[Len(sorted_wards) + 1 - k]) ],
      score_change_7d |-> ScoreChange(mdi_result.score, prev_score_7d),
      score_change_30d |-> ScoreChange(mdi_result.score, prev_score_30d),
      score_trend |-> ScoreTrend(mdi_result.score, prev_score_7d) ] :
    sorted_wards \in { SortedBy(scores, LAMBDA w : w.mdi_score, TRUE) } })

calculate_city_score(city_code, score_date) ==
    Only({ Only({ CityScoreResponse(city_code, scores, mdi_result,
                      FindCityScore(city_code, PlusDays(score_date, 0 - 7)),
                      FindCityScore(city_code, PlusDays(score_date, 0 - 30))) :
              mdi_result \in
                  { calculate_score(SumField(scores, "total_debt"),
                                    SumField(scores, "total_base_cost")) } }) :
          scores \in { CityWardScores(score_date) } })

GetAssetMdiScore ==
    \E asset_id \in DOMAIN Assets \cup {MissingId} :
        /\ call' = [op |-> "get_asset_mdi_score", asset_id |-> asset_id]
        /\ ret' = [kind |-> "asset_score", value |-> get_asset_mdi_score(asset_id)]
        /\ UNCHANGED serviceVars

CalculateWardScore ==
    \E ward_id \in {1, 2, 3, 4, MissingId}, score_date \in {Today} :
        /\ call' = [op |-> "calculate_ward_score", ward_id |-> ward_id,
                    score_date |-> score_date]
        /\ ret' = [kind |-> "ward_score", value |-> calculate_ward_score(ward_id, score_date)]
        /\ UNCHANGED serviceVars

CalculateCityScore ==
    \E score_date \in {Today} :
        /\ call' = [op |-> "calculate_city_score", city_code |-> "default",
                    score_date |-> score_date]
        /\ ret' = [kind |-> "city_score",
                   value |-> calculate_city_score("default", score_date)]
        /\ UNCHANGED serviceVars

(***************************************************************************)
(* The issue service: issues are reported, updated and resolved as the     *)
(* days pass, and debts and scores are asked for in between.               *)
(***************************************************************************)
IssueInit ==
    /\ call = [op |-> "start"]
    /\ ret = NoResult
    /\ issues = <<>>
    /\ now = Datetime(Days[1], HourOfDay)
    /\ debt_snapshots = <<>>
    /\ ward_scores = <<>>
    /\ city_scores = <<>>
    /\ writers = <<>>
    /\ batch = NoResult

IssueNext ==
    \/ CreateIssue
    \/ UpdateIssue
    \/ ResolveIssue
    \/ Tick
    \/ CalculateAssetDebt
    \/ CalculateWardScore
    \/ CalculateCityScore

IssueSpec == IssueInit /\ [][IssueNext]_vars

(***************************************************************************)
(* What the specification says of the configuration, restated on its own:  *)
(* the properties below are checked against these, not against the         *)
(* definitions that model the code.                                        *)
(***************************************************************************)
\* the category of an asset type is its name without regard to case
StatedSLA(asset_type) ==
    LET c == Lower(asset_type)
    IN  CASE c = "road" -> 14
          [] c = "drain" -> 7
          [] c = "streetlight" -> 3
          [] c = "bridge" -> 21
          [] c = "sidewalk" -> 10
          [] OTHER -> 7

StatedSeverityMultiplier(severity) ==
    LET v == Lower(severity)
    IN  CASE v = "low" -> SCALE
          [] v = "medium" -> SCALE + SCALE \div 2
          [] v = "high" -> 2 * SCALE
          [] v = "critical" -> 3 * SCALE

StatedSeverityRank(severity) ==
    CASE severity = "low" -> 1
      [] severity = "medium" -> 2
      [] severity = "high" -> 3
      [] severity = "critical" -> 4

StatedMaxMultiplier == 10 * SCALE

StatedCategory(score) ==
    CASE score >= 90 * TENTHS -> "Excellent"
      [] score >= 70 * TENTHS /\ score < 90 * TENTHS -> "Good"
      [] score >= 50 * TENTHS /\ score < 70 * TENTHS -> "Fair"
      [] score >= 30 * TENTHS /\ score < 50 * TENTHS -> "Poor"
      [] score < 30 * TENTHS -> "Critical"

Abs(x) == IF x < 0 THEN 0 - x ELSE x

DebtReturned == ret.kind = "debt"
DecayCostReturned == ret.kind = "decay_cost"
ScoreReturned == call.op = "calculate_score" /\ ret.kind = "score"
FromDebtsReturned == call.op = "calculate_from_debts" /\ ret.kind = "score"
CategoryReturned == ret.kind = "category"

(***************************************************************************)
(* C1.  For every base cost > 0, asset category, severity and as-of date   *)
(* on or before report_date + SLA(category), calculate_debt returns        *)
(* delay_days = 0, debt_multiplier exactly 1.0, maintenance_debt exactly 0 *)
(* and is_overdue = false; calculate_decay_cost with delay_days = 0        *)
(* returns the base cost and the multiplier 1.0 for every severity.        *)
(***************************************************************************)
C1_NoDecayWithinSLA ==
    /\ (DebtReturned
          /\ call.current_date.day <= call.report_date.day + StatedSLA(call.asset_type))
         => /\ ret.value.delay_days = 0
            /\ ret.value.debt_multiplier = SCALE
            /\ ret.value.maintenance_debt = 0
            /\ ret.value.current_cost = call.base_cost
            /\ ret.value.is_overdue = FALSE
    /\ (DecayCostReturned /\ call.delay_days = 0)
         => /\ ret.debt_multiplier = SCALE
            /\ ret.decay_cost = call.base_cost

\* Scenario A: base cost 10000, road, medium, as of the last day of the SLA
C1_Witness ==
    /\ DebtReturned
    /\ call.base_cost = Money(10000)
    /\ call.asset_type = "road"
    /\ call.severity = "medium"
    /\ call.current_date.day = call.report_date.day + 14
    /\ ret.value.delay_days = 0
    /\ ret.value.maintenance_debt = 0

(***************************************************************************)
(* C2.  For every delay_days from 0 up to the large delay and every        *)
(* severity, the multiplier returned by calculate_decay_cost is at least 1 *)
(* and at most max_multiplier (10.0), and the decayed cost is at most      *)
(* base_cost * max_multiplier.                                             *)
(***************************************************************************)
C2_MultiplierCapped ==
    /\ DecayCostReturned
         => /\ SCALE <= ret.debt_multiplier
            /\ ret.debt_multiplier <= StatedMaxMultiplier
            /\ ret.decay_cost <= call.base_cost * (StatedMaxMultiplier \div SCALE)
    /\ DebtReturned
         => /\ SCALE <= ret.value.debt_multiplier
            /\ ret.value.debt_multiplier <= StatedMaxMultiplier
            /\ ret.value.current_cost <= call.base_cost * (StatedMaxMultiplier \div SCALE)

\* the cap is in force: the large delay, at the capped multiplier
C2_Witness ==
    /\ DecayCostReturned
    /\ call.delay_days = LargeDelay
    /\ call.severity = "low"
    /\ ret.debt_multiplier = StatedMaxMultiplier

(***************************************************************************)
(* C3.  The multiplier is monotonically non-decreasing in delay_days for a *)
(* fixed severity (the returned multiplier is at most that of the next     *)
(* day, of the largest modelled delay and of the large delay), and         *)
(* non-decreasing in the severity rank low < medium < high < critical for  *)
(* a fixed delay.                                                          *)
(***************************************************************************)
C3_MultiplierMonotone ==
    DecayCostReturned =>
        /\ \A d2 \in {call.delay_days + 1, MaxDelay, LargeDelay} :
               call.delay_days <= d2 =>
                   ret.debt_multiplier <=
                       calculate_decay_cost(call.base_cost, d2, call.severity)[2]
        /\ call.severity \in Severities =>
               \A s2 \in Severities :
                   StatedSeverityRank(call.severity) <= StatedSeverityRank(s2) =>
                       ret.debt_multiplier <=
                           calculate_decay_cost(call.base_cost, call.delay_days, s2)[2]

\* a delay at which both orders are strict
C3_Witness ==
    /\ DecayCostReturned
    /\ call.delay_days = 10
    /\ call.severity = "medium"
    /\ ret.debt_multiplier < calculate_decay_cost(call.base_cost, 11, "medium")[2]
    /\ ret.debt_multiplier < calculate_decay_cost(call.base_cost, 10, "high")[2]
    /\ ret.debt_multiplier > calculate_decay_cost(call.base_cost, 10, "low")[2]

(***************************************************************************)
(* C4.  For every report date, as-of date and category, delay_days is      *)
(* max(0, as_of_date - (report_date + SLA(category))) in whole days, where *)
(* SLA is road 14, drain 7, streetlight 3, bridge 21, sidewalk 10 and 7    *)
(* for every other category; is_overdue is true exactly when               *)
(* delay_days > 0.                                                         *)
(***************************************************************************)
C4_DelayDays ==
    DebtReturned =>
        LET expected == call.report_date.day + StatedSLA(call.asset_type)
        IN  /\ ret.value.expected_fix_date = Date(expected)
            /\ ret.value.delay_days = Max(0, call.current_date.day - expected)
            /\ ret.value.is_overdue = (ret.value.delay_days > 0)

\* an unmapped category, overdue by the default SLA
C4_Witness ==
    /\ DebtReturned
    /\ call.asset_type = "canal"
    /\ call.current_date.day = call.report_date.day + 7 + 5
    /\ ret.value.delay_days = 5
    /\ ret.value.is_overdue

(***************************************************************************)
(* C5.  For every severity string that is not one of low, medium, high,    *)
(* critical, the result of the decay calculation equals, for every delay,  *)
(* the result computed with severity "medium".                             *)
(***************************************************************************)
C5_UnknownSeverityIsMedium ==
    (DebtReturned /\ Lower(call.severity) \notin Severities) =>
        ret.value = calculate_debt(call.base_cost, call.report_date, call.asset_type,
                                   call.current_date, "medium")

(***************************************************************************)
(* C6.  For every delay_days > 0 and every severity of the table,          *)
(* multiplier = min(1 + ((1 + decay_rate)^delay_days - 1) *                *)
(* severity_multiplier, max_multiplier), current_cost = base_cost *        *)
(* multiplier and debt = current_cost - base_cost.  Base cost 10000, road, *)
(* medium, 10 days past the SLA gives delay 10, multiplier 1.3285 and debt *)
(* 3285, to within one unit of the fixed-point arithmetic.                 *)
(***************************************************************************)
C6_StatedMultiplier(delay_days, severity) ==
    LET growth == math_pow(SCALE + (2 * SCALE) \div 100, delay_days) - SCALE
    IN  Min(SCALE + FxMul(growth, StatedSeverityMultiplier(severity)), StatedMaxMultiplier)

C6_DecayFormula ==
    /\ (DecayCostReturned /\ call.delay_days > 0 /\ Lower(call.severity) \in Severities)
         => /\ ret.debt_multiplier = C6_StatedMultiplier(call.delay_days, call.severity)
            /\ ret.decay_cost = FxMul(call.base_cost, ret.debt_multiplier)
    /\ (DebtReturned /\ ret.value.delay_days > 0 /\ Lower(call.severity) \in Severities)
         => /\ ret.value.debt_multiplier =
                   C6_StatedMultiplier(ret.value.delay_days, call.severity)
            /\ ret.value.current_cost = FxMul(call.base_cost, ret.value.debt_multiplier)
            /\ ret.value.maintenance_debt = ret.value.current_cost - call.base_cost
    /\ ( /\ DebtReturned
         /\ call.base_cost = Money(10000)
         /\ call.asset_type = "road"
         /\ call.severity = "medium"
         /\ call.current_date.day = call.report_date.day + 14 + 10 )
         => /\ ret.value.delay_days = 10
            /\ Abs(ret.value.debt_multiplier - 13285) <= 1
            /\ Abs(ret.value.maintenance_debt - Money(3285)) <= Money(1)

\* Scenario B has been computed
C6_Witness ==
    /\ DebtReturned
    /\ call.base_cost = Money(10000)
    /\ call.asset_type = "road"
    /\ call.severity = "medium"
    /\ call.current_date.day = call.report_date.day + 14 + 10
    /\ ret.value.delay_days = 10
    /\ ret.value.maintenance_debt > 0

(***************************************************************************)
(* C7.  calculate_score(0, X) returns score 100 for every X >= 0, and      *)
(* calculate_score(D, B) returns score 100 with category "Excellent" for   *)
(* every D whenever B <= 0.                                                *)
(***************************************************************************)
C7_PerfectScores ==
    ScoreReturned =>
        /\ (call.total_debt = 0 /\ call.total_base_cost >= 0)
             => ret.value.score = 100 * TENTHS
        /\ call.total_base_cost <= 0
             => /\ ret.value.score = 100 * TENTHS
                /\ ret.value.category = "Excellent"

\* a debt without any base cost
C7_Witness ==
    /\ ScoreReturned
    /\ call.total_debt > 0
    /\ call.total_base_cost = 0
    /\ ret.value.score = 100 * TENTHS

C9_ScoreMonotone ==
    (ScoreReturned /\ call.total_base_cost > 0) =>
        \A d2 \in DebtTotals :
            call.total_debt <= d2 =>
                ret.value.score >= calculate_score(d2, call.total_base_cost).score

\* a larger debt with a strictly lower score
C9_Witness ==
    /\ ScoreReturned
    /\ call.total_base_cost > 0
    /\ call.total_debt > 0
    /\ ret.value.score < 100 * TENTHS
    /\ ret.value.score >
           calculate_score(call.total_debt + DebtStep, call.total_base_cost).score

(***************************************************************************)
(* C10.  For every score in [0, 100] the category is the first of the      *)
(* descending thresholds the score meets: Excellent iff score >= 90, Good  *)
(* iff 70 <= score < 90, Fair iff 50 <= score < 70, Poor iff               *)
(* 30 <= score < 50, Critical iff score < 30; every score maps to exactly  *)
(* one of the five labels.                                                 *)
(***************************************************************************)
C10_CategoryThresholds ==
    /\ (CategoryReturned /\ 0 <= call.score /\ call.score <= 100 * TENTHS)
         => ret.category = StatedCategory(call.score)
    /\ (ScoreReturned \/ FromDebtsReturned)
         => ret.value.category = StatedCategory(ret.value.score)

\* a score of exactly 90.0 is Excellent
C10_Witness ==
    /\ CategoryReturned
    /\ call.score = 90 * TENTHS
    /\ ret.category = "Excellent"

(***************************************************************************)
(* What the specification says of the debts of assets, wards and the city. *)
(***************************************************************************)
\* the open issues of the asset, in the order of the table
OpenIssuesOf(asset_id) ==
    SelectSeq(issues, LAMBDA i : i.asset_id = asset_id /\ ~i.is_resolved)

AssetDebtReturned == call.op = "calculate_asset_debt" /\ ret.kind = "asset_debt"

(***************************************************************************)
(* C11.  After any sequence of issue create, update and resolve            *)
(* operations, calculate_asset_debt counts exactly the issues of the asset *)
(* that are not resolved: there is one debt result for each of them,       *)
(* total_debt and total_base_cost are the sums of their debts and base     *)
(* costs, a resolved issue contributes nothing, and an asset without an    *)
(* open issue has total_debt 0 and score 100.                              *)
(***************************************************************************)
C11_OpenIssuesOnly ==
    AssetDebtReturned =>
        LET open == OpenIssuesOf(call.asset_id)
            debts == ret.value.issue_debts
        IN  /\ Len(debts) = Cardinality({k \in DOMAIN issues :
                                 /\ issues[k].asset_id = call.asset_id
                                 /\ ~issues[k].is_resolved})
            /\ \A k \in DOMAIN debts : debts[k] = calculate_issue_debt(open[k], Today)
            /\ ret.value.total_debt = SumField(debts, "maintenance_debt")
            /\ ret.value.total_base_cost = SumField(debts, "base_cost")
            /\ open = <<>> =>
                   /\ ret.value.total_debt = 0
                   /\ calculate_score(ret.value.total_debt,
                                      ret.value.total_base_cost).score = 100 * TENTHS

\* the debt of an asset with an open issue in debt and a resolved issue that
\* was overdue when it was resolved
C11_Witness ==
    /\ AssetDebtReturned
    /\ ret.value.total_debt > 0
    /\ Len(ret.value.issue_debts) = 1
    /\ \E k \in DOMAIN issues :
           /\ issues[k].asset_id = call.asset_id
           /\ issues[k].is_resolved
           /\ calculate_issue_debt(issues[k], Today).delay_days > 0

(***************************************************************************)
(* C12.  For every open issue, the base cost of its debt is the issue's    *)
(* own estimated repair cost whenever the issue has an estimate, whatever  *)
(* its value (the API accepts every estimate >= 0), and the base repair    *)
(* cost of its asset only when the issue has no estimate.                  *)
(***************************************************************************)
C12_OwnEstimateIsBaseCost ==
    AssetDebtReturned =>
        LET open == OpenIssuesOf(call.asset_id)
        IN  \A k \in DOMAIN open :
                ret.value.issue_debts[k].base_cost =
                    IF open[k].estimated_repair_cost # None
                    THEN open[k].estimated_repair_cost[1]
                    ELSE Assets[call.asset_id].base_repair_cost

(***************************************************************************)
(* C13.  For every date, the total_debt and the total_base_cost of the     *)
(* city score are the sums of the totals of calculate_ward_score over the  *)
(* wards, and the totals of a ward are the sums of calculate_asset_debt    *)
(* over the active assets of the ward; the sums are not rounded.           *)
(***************************************************************************)
\* the sum of the field over the active assets of the ward
C13_WardTotal(ward_id, score_date, field) ==
    SeqSum(Map(Assets, LAMBDA a :
        IF a.ward_id = ward_id /\ a.status = "active"
        THEN calculate_asset_debt(a.id, score_date)[field]
        ELSE 0))

C13_TotalsAreSums ==
    \A field \in {"total_debt", "total_base_cost"} :
        /\ (call.op = "calculate_ward_score" /\ ret.value # None) =>
               ret.value[1][field] = C13_WardTotal(call.ward_id, call.score_date, field)
        /\ call.op = "calculate_city_score" =>
               ret.value[field] =
                   SeqSum(Map(Wards, LAMBDA w :
                       calculate_ward_score(w, call.score_date)[1][field]))

\* the city score when two assets of a ward are in debt
C13_Witness ==
    /\ call.op = "calculate_city_score"
    /\ ret.value.total_debt > 0
    /\ calculate_asset_debt(1, call.score_date).total_debt > 0
    /\ calculate_asset_debt(2, call.score_date).total_debt > 0

(***************************************************************************)
(* The scores of a day on which history may be stored.  It is day          *)
(* TrendDay; asset 2 has one critical issue, reported on day 0 and open    *)
(* since, which makes the score of the asset, of its ward and of the city  *)
(* 67.4.  The tables hold what was stored 7 and 30 days ago, if anything:  *)
(* scores of days whose data has changed since (issues deleted since leave *)
(* no trace in the issues table).                                          *)
(***************************************************************************)
TrendDay == 30

\* the rows of a table for an entity: none, or a row of 7 days ago, with a row
\* of 30 days ago or without; only the score of a stored row is read
History(row(_, _)) ==
    LET \* the scores stored 7 days ago: 5.1, 5.0 and 4.9 below 67.4, 5.0 and 5.1 above
        HistoryScores == {623, 624, 625, 724, 725}
    IN
    { <<>>, <<row(TrendDay - 30, 100 * TENTHS)>> }
        \cup { <<row(TrendDay - 7, s)>> : s \in HistoryScores }
        \cup { <<row(TrendDay - 30, 100 * TENTHS), row(TrendDay - 7, s)>> :
                 s \in HistoryScores }

TrendInit ==
    /\ call = [op |-> "start"]
    /\ ret = NoResult
    /\ now = Datetime(TrendDay, HourOfDay)
    /\ issues = << NewIssue([ asset_id |-> 2, severity |-> "critical",
                              estimated_repair_cost |-> None, report_date |-> None ],
                            1, Datetime(0, HourOfDay)) >>
    /\ debt_snapshots \in History(LAMBDA day, score :
           [asset_id |-> 2, snapshot_date |-> Date(day), mdi_score |-> score])
    /\ ward_scores \in History(LAMBDA day, score :
           [ward_id |-> 1, score_date |-> Date(day), mdi_score |-> score])
    /\ city_scores \in History(LAMBDA day, score :
           [city_code |-> "default", score_date |-> Date(day), mdi_score |-> score])
    /\ writers = <<>>
    /\ batch = NoResult

TrendNext ==
    \/ GetAssetMdiScore
    \/ CalculateWardScore
    \/ CalculateCityScore

TrendSpec == TrendInit /\ [][TrendNext]_vars

(***************************************************************************)
(* What the specification says of the trend of a score.                    *)
(***************************************************************************)
\* a score of an asset, of a ward or of the city has been returned
TrendReturned ==
    \/ call.op \in {"get_asset_mdi_score", "calculate_ward_score"} /\ ret.value # None
    \/ call.op = "calculate_city_score"

\* the score returned
ReturnedScore == IF call.op = "calculate_city_score" THEN ret.value ELSE ret.value[1]

\* the date for which the score was computed
ComputationDate == IF call.op = "get_asset_mdi_score" THEN Today ELSE call.score_date

\* the rows stored for the entity of the call on the day that many days before
StoredBefore(days) ==
    LET on == PlusDays(ComputationDate, 0 - days)
    IN  IF call.op = "get_asset_mdi_score"
        THEN SelectSeq(debt_snapshots, LAMBDA s :
                 s.asset_id = call.asset_id /\ s.snapshot_date = on)
        ELSE IF call.op = "calculate_ward_score"
        THEN SelectSeq(ward_scores, LAMBDA s :
                 s.ward_id = call.ward_id /\ s.score_date = on)
        ELSE SelectSeq(city_scores, LAMBDA s :
                 s.city_code = call.city_code /\ s.score_date = on)

(***************************************************************************)
(* C14.  For an asset, a ward and the city: when no snapshot of the entity *)
(* is stored for the day exactly 7 days before the computation date, the   *)
(* 7-day score change and the trend label are both absent (the label is    *)
(* not "stable"); when none is stored for the day 30 days before, the      *)
(* 30-day change is absent.                                                *)
(***************************************************************************)
C14_NoHistoryNoTrend ==
    TrendReturned =>
        /\ StoredBefore(7) = <<>> =>
               /\ ReturnedScore.score_change_7d = None
               /\ ReturnedScore.score_trend = None
        /\ (StoredBefore(30) = <<>> /\ "score_change_30d" \in DOMAIN ReturnedScore) =>
               ReturnedScore.score_change_30d = None

(***************************************************************************)
(* C15.  When a snapshot of the entity is stored for the day exactly 7     *)
(* days before the computation date, the 7-day change is the current score *)
(* less the score of the snapshot, and the trend label is "improving" iff  *)
(* the change is above 5, "declining" iff it is below -5 and "stable"      *)
(* otherwise: a change of exactly +5 or -5 is "stable".  The same for an   *)
(* asset, a ward and the city.                                             *)
(***************************************************************************)
C15_TrendFromChange ==
    (TrendReturned /\ StoredBefore(7) # <<>>) =>
        LET change == ReturnedScore.mdi_score - StoredBefore(7)[1].mdi_score
        IN  /\ ReturnedScore.score_change_7d = Some(change)
            /\ ReturnedScore.score_trend =
                   Some(IF change > 5 * TENTHS THEN "improving"
                        ELSE IF change < 0 - 5 * TENTHS THEN "declining"
                        ELSE "stable")

(***************************************************************************)
(* The snapshot store: DebtService.create_debt_snapshot,                   *)
(* AggregationService.save_ward_score and save_city_score.  A row is the   *)
(* record of its key and of the fields that a save sets; the surrogate id  *)
(* and the creation time of a row are not modelled.                        *)
(***************************************************************************)
\* the fields that create_debt_snapshot sets, from the debt of the asset
DebtSnapshotOf(asset_id, snapshot_date, debt, multipliers) ==
    [ asset_id |-> asset_id,
      snapshot_date |-> snapshot_date,
      total_base_cost |-> debt.total_base_cost,
      total_current_cost |-> debt.total_base_cost + debt.total_debt,
      total_debt |-> debt.total_debt,
      open_issue_count |-> Len(debt.issue_debts),
      overdue_issue_count |-> Len(OverdueDelays(debt.issue_debts)),
      avg_delay_days |-> IF OverdueDelays(debt.issue_debts) # <<>>
                         THEN Average(OverdueDelays(debt.issue_debts)) ELSE 0,
      max_delay_days |-> SeqMax(OverdueDelays(debt.issue_debts), 0),
      avg_debt_multiplier |-> IF multipliers # <<>>
                              THEN RoundDiv(SeqSum(multipliers), Len(multipliers))
                              ELSE SCALE,
      max_debt_multiplier |-> SeqMax(multipliers, SCALE),
      mdi_score |-> calculate_score(debt.total_debt, debt.total_base_cost).score ]

DebtSnapshotFields(asset_id, snapshot_date) ==
    Only({ DebtSnapshotOf(asset_id, snapshot_date, debt,
                          Map(debt.issue_debts, LAMBDA d : d.debt_multiplier)) :
           debt \in { calculate_asset_debt(asset_id, snapshot_date) } })

\* the fields that save_ward_score sets, from the response of calculate_ward_score
WardScoreFields(ward_id, score_date, response) ==
    [ ward_id |-> ward_id,
      score_date |-> score_date,
      mdi_score |-> response.mdi_score,
      score_category |-> response.score_category,
      total_debt |-> response.total_debt,
      total_base_cost |-> response.total_base_cost,
      total_assets |-> response.total_assets,
      assets_with_issues |-> response.assets_with_issues,
      assets_overdue |-> response.assets_overdue,
      total_open_issues |-> response.open_issues,
      total_overdue_issues |-> response.overdue_issues,
      avg_delay_days |-> response.avg_delay_days,
      max_delay_days |-> response.max_delay_days ]

\* the fields that save_city_score sets, from the response of calculate_city_score
CityScoreFields(city_code, score_date, response) ==
    [ city_code |-> city_code,
      score_date |-> score_date,
      mdi_score |-> response.mdi_score,
      score_category |-> response.score_category,
      total_debt |-> response.total_debt,
      total_base_cost |-> response.total_base_cost,
      total_wards |-> response.total_wards,
      total_assets |-> response.total_assets,
      total_open_issues |-> response.total_open_issues,
      wards_excellent |-> response.wards_excellent,
      wards_good |-> response.wards_good,
      wards_fair |-> response.wards_fair,
      wards_poor |-> response.wards_poor,
      wards_critical |-> response.wards_critical ]

\* existing = db.query(DebtSnapshot).filter(...).first(), as its primary key
ExistingDebtSnapshot(asset_id, snapshot_date) ==
    FirstId(debt_snapshots,
        LAMBDA s : s.asset_id = asset_id /\ s.snapshot_date = snapshot_date)

\* mutant: the look-up never finds the row
ExistingWardScore_Never(ward_id, score_date) == None

\* existing = db.query(WardScore).filter(...).first(), as its primary key
ExistingWardScore(ward_id, score_date) ==
    FirstId(ward_scores, LAMBDA s : s.ward_id = ward_id /\ s.score_date = score_date)

\* existing = db.query(CityScore).filter(...).first(), as its primary key
ExistingCityScore(city_code, score_date) ==
    FirstId(city_scores, LAMBDA s : s.city_code = city_code /\ s.score_date = score_date)

\* mutant: a save always adds a row
Upsert_Append(table, existing, fields) == Append(table, fields)

\* the table after db.add and db.commit of the record: the existing row with
\* its fields set, or else a new row
Upsert(table, existing, fields) ==
    IF existing # None
    THEN [table EXCEPT ![existing[1]] = fields]
    ELSE Append(table, fields)

CreateDebtSnapshot ==
    \E asset_id \in {1, MissingId} :
        /\ call' = [op |-> "create_debt_snapshot", asset_id |-> asset_id,
                    snapshot_date |-> Today]
        /\ IF ~AssetExists(asset_id)
           THEN /\ ret' = [kind |-> "snapshot", value |-> None]
                /\ UNCHANGED debt_snapshots
           ELSE \E snapshot \in { DebtSnapshotFields(asset_id, Today) } :
                /\ debt_snapshots' =
                       Upsert(debt_snapshots, ExistingDebtSnapshot(asset_id, Today), snapshot)
                /\ ret' = [kind |-> "snapshot", value |-> Some(snapshot)]
        /\ UNCHANGED <<dataVars, ward_scores, city_scores, writers, batch>>

SaveWardScore ==
    \E ward_id \in {1, MissingId} :
        /\ call' = [op |-> "save_ward_score", ward_id |-> ward_id, score_date |-> Today]
        /\ \E response \in { calculate_ward_score(ward_id, Today) } :
               IF response = None
               THEN /\ ret' = [kind |-> "snapshot", value |-> None]
                    /\ UNCHANGED ward_scores
               ELSE \E score_record \in { WardScoreFields(ward_id, Today, response[1]) } :
                    /\ ward_scores' =
                           Upsert(ward_scores, ExistingWardScore(ward_id, Today), score_record)
                    /\ ret' = [kind |-> "snapshot", value |-> Some(score_record)]
        /\ UNCHANGED <<dataVars, debt_snapshots, city_scores, writers, batch>>

SaveCityScore ==
    /\ call' = [op |-> "save_city_score", city_code |-> "default", score_date |-> Today]
    /\ \E score_record \in
           { CityScoreFields("default", Today, calculate_city_score("default", Today)) } :
           /\ city_scores' =
                  Upsert(city_scores, ExistingCityScore("default", Today), score_record)
           /\ ret' = [kind |-> "snapshot", value |-> Some(score_record)]
    /\ UNCHANGED <<dataVars, debt_snapshots, ward_scores, writers, batch>>

(***************************************************************************)
(* Saves one after the other: an issue of asset 1 is open since day 0, and *)
(* between the saves it may be resolved and the days pass.                 *)
(***************************************************************************)
SnapshotInit ==
    /\ call = [op |-> "start"]
    /\ ret = NoResult
    /\ now = Datetime(Days[1], HourOfDay)
    /\ issues = << NewIssue([ asset_id |-> 1, severity |-> "critical",
                              estimated_repair_cost |-> None, report_date |-> None ],
                            1, Datetime(Days[1], HourOfDay)) >>
    /\ debt_snapshots = <<>>
    /\ ward_scores = <<>>
    /\ city_scores = <<>>
    /\ writers = <<>>
    /\ batch = NoResult

SnapshotNext ==
    \/ ResolveIssue
    \/ Tick
    \/ CreateDebtSnapshot
    \/ SaveWardScore
    \/ SaveCityScore

SnapshotSpec == SnapshotInit /\ [][SnapshotNext]_vars

(***************************************************************************)
(* What the specification says of the snapshot store.                      *)
(***************************************************************************)
\* no two rows of the table have the same key
UniqueKeys(table, key(_)) ==
    \A j, k \in DOMAIN table : key(table[j]) = key(table[k]) => j = k

OneRowPerKey ==
    /\ UniqueKeys(debt_snapshots, LAMBDA s : <<s.asset_id, s.snapshot_date>>)
    /\ UniqueKeys(ward_scores, LAMBDA s : <<s.ward_id, s.score_date>>)
    /\ UniqueKeys(city_scores, LAMBDA s : <<s.city_code, s.score_date>>)

\* the rows of the table with the key
RowsOf(table, key(_), k) == SelectSeq(table, LAMBDA s : key(s) = k)

\* a save has stored the row that it returns
Saved(op) == call.op = op /\ ret.kind = "snapshot" /\ ret.value # None

\* the key saved by the call, or <<>> when the call is not a save of the table
SavedKey(c, op, entity, date) == IF c.op = op THEN <<c[entity], c[date]>> ELSE <<>>

\* the rows of the other keys are in the new table as they were in the old
KeptExcept(old, new, key(_), k) ==
    SelectSeq(old, LAMBDA s : key(s) # k) = SelectSeq(new, LAMBDA s : key(s) # k)

\* the row of the key last saved is the one row of its key, and it carries
\* what the computation gives
LastSaveStored ==
    /\ Saved("create_debt_snapshot") =>
           RowsOf(debt_snapshots, LAMBDA s : <<s.asset_id, s.snapshot_date>>,
                  <<call.asset_id, call.snapshot_date>>)
               = <<DebtSnapshotFields(call.asset_id, call.snapshot_date)>>
    /\ Saved("save_ward_score") =>
           RowsOf(ward_scores, LAMBDA s : <<s.ward_id, s.score_date>>,
                  <<call.ward_id, call.score_date>>)
               = <<WardScoreFields(call.ward_id, call.score_date,
                       calculate_ward_score(call.ward_id, call.score_date)[1])>>
    /\ Saved("save_city_score") =>
           RowsOf(city_scores, LAMBDA s : <<s.city_code, s.score_date>>,
                  <<call.city_code, call.score_date>>)
               = <<CityScoreFields(call.city_code, call.score_date,
                       calculate_city_score(call.city_code, call.score_date))>>

\* a step changes no row but the row of the key that it saves
OtherRowsKept ==
    /\ KeptExcept(debt_snapshots, debt_snapshots',
                  LAMBDA s : <<s.asset_id, s.snapshot_date>>,
                  SavedKey(call', "create_debt_snapshot", "asset_id", "snapshot_date"))
    /\ KeptExcept(ward_scores, ward_scores',
                  LAMBDA s : <<s.ward_id, s.score_date>>,
                  SavedKey(call', "save_ward_score", "ward_id", "score_date"))
    /\ KeptExcept(city_scores, city_scores',
                  LAMBDA s : <<s.city_code, s.score_date>>,
                  SavedKey(call', "save_city_score", "city_code", "score_date"))

(***************************************************************************)
(* C16.  After any sequence of saves executed one after the other          *)
(* (save_ward_score, save_city_score, create_debt_snapshot), every table   *)
(* holds at most one row for an entity and a date, and that row carries    *)
(* the totals and the score of the most recent computation for the key: a  *)
(* save stores what it computes in the one row of its key and leaves the   *)
(* rows of the other keys as they are.                                     *)
(***************************************************************************)
C16_LastSaveWins == [](OneRowPerKey /\ LastSaveStored) /\ [][OtherRowsKept]_vars

\* the ward score of day 30 saved after the issue was resolved, when the debt
\* snapshot of that day was stored before, and rows of day 0 are stored too
C16_Witness ==
    /\ Saved("save_ward_score")
    /\ Len(ward_scores) = 2
    /\ ward_scores[2] = ret.value[1]
    /\ ward_scores[2].total_open_issues = 0
    /\ ward_scores[1].total_open_issues = 1
    /\ Len(debt_snapshots) = 2
    /\ debt_snapshots[2].total_debt > 0

(***************************************************************************)
(* Concurrent saves of the same rows.  Every writer has a session of its   *)
(* own (SessionLocal); a save is the steps of its code: the look-up of the *)
(* existing row, the flush of the INSERT or UPDATE of db.add, and the      *)
(* commit, which makes the row visible to the other sessions.  The indexes *)
(* on (ward_id, score_date) and (asset_id, snapshot_date) are not unique   *)
(* and city_scores has none, so no INSERT is refused.  The writers save    *)
(* the scores of today for asset 1, ward 1 and the city.                   *)
(***************************************************************************)
Writers == 1 .. 2

SaveTargets == {"debt_snapshots", "ward_scores", "city_scores"}

\* the committed rows of the table
TableOf(target) ==
    IF target = "debt_snapshots" THEN debt_snapshots
    ELSE IF target = "ward_scores" THEN ward_scores
    ELSE city_scores

\* existing, for the key that the writers save
ExistingOf(target) ==
    IF target = "debt_snapshots" THEN ExistingDebtSnapshot(1, Today)
    ELSE IF target = "ward_scores" THEN ExistingWardScore(1, Today)
    ELSE ExistingCityScore("default", Today)

\* the record with its fields set
RecordOf(target) ==
    IF target = "debt_snapshots" THEN DebtSnapshotFields(1, Today)
    ELSE IF target = "ward_scores"
    THEN WardScoreFields(1, Today, calculate_ward_score(1, Today)[1])
    ELSE CityScoreFields("default", Today, calculate_city_score("default", Today))

\* the writer computes the scores and looks the existing row up
LookUp(w) ==
    /\ writers[w].pc = "idle"
    /\ \E target \in SaveTargets :
           writers' = [writers EXCEPT ![w] =
               [ pc |-> "looked_up",
                 target |-> target,
                 existing |-> ExistingOf(target),
                 record |-> RecordOf(target) ]]
    /\ UNCHANGED <<call, ret, dataVars, storeVars, batch>>

\* db.add and the flush of commit: INSERT or UPDATE within the transaction
Flush(w) ==
    /\ writers[w].pc = "looked_up"
    /\ writers' = [writers EXCEPT ![w].pc = "flushed"]
    /\ UNCHANGED <<call, ret, dataVars, storeVars, batch>>

\* db.commit: the row is in the table
Commit(w) ==
    /\ writers[w].pc = "flushed"
    /\ LET table == Upsert(TableOf(writers[w].target), writers[w].existing,
                           writers[w].record)
       IN  /\ debt_snapshots' =
                  IF writers[w].target = "debt_snapshots" THEN table ELSE debt_snapshots
           /\ ward_scores' =
                  IF writers[w].target = "ward_scores" THEN table ELSE ward_scores
           /\ city_scores' =
                  IF writers[w].target = "city_scores" THEN table ELSE city_scores
    /\ writers' = [writers EXCEPT ![w] = [pc |-> "idle"]]
    /\ UNCHANGED <<call, ret, dataVars, batch>>

ConcurrentInit ==
    /\ call = [op |-> "start"]
    /\ ret = NoResult
    /\ now = Datetime(TrendDay, HourOfDay)
    /\ issues = << NewIssue([ asset_id |-> 1, severity |-> "critical",
                              estimated_repair_cost |-> None, report_date |-> None ],
                            1, Datetime(0, HourOfDay)) >>
    /\ debt_snapshots = <<>>
    /\ ward_scores = <<>>
    /\ city_scores = <<>>
    /\ writers = [w \in Writers |-> [pc |-> "idle"]]
    /\ batch = NoResult

ConcurrentNext ==
    \E w \in Writers :
        \/ LookUp(w)
        \/ Flush(w)
        \/ Commit(w)

ConcurrentSpec == ConcurrentInit /\ [][ConcurrentNext]_vars

(***************************************************************************)
(* C17.  When two writers save a snapshot for the same entity and date     *)
(* concurrently, then in every interleaving of their look-up, insert or    *)
(* update and commit steps the store ends with exactly one row for the     *)
(* key.                                                                    *)
(***************************************************************************)
C17_OneRowAfterConcurrentSaves ==
    (\A w \in Writers : writers[w].pc = "idle") =>
        \A target \in SaveTargets : Len(TableOf(target)) <= 1

(***************************************************************************)
(* The batch recompute: DebtService.calculate_all_asset_debts and          *)
(* AggregationService.calculate_all_scores, called by the tasks of         *)
(* workers/celery_worker.py and by the refresh endpoints.  A batch works   *)
(* in one session.  The computation or the write of one ward or asset may  *)
(* fail: a failed computation raises before anything is written; a failed  *)
(* write raises from the flush of db.commit, which rolls the transaction   *)
(* back and leaves the session unusable until Session.rollback is called:  *)
(* every later query and commit of the session raises.  No handler of the  *)
(* batch calls rollback; get_db_context does, after the batch has raised.  *)
(***************************************************************************)
\* the most runs of each batch
MaxRuns == 2

BatchKinds == {"calculate_all_asset_debts", "calculate_all_scores"}

\* assets = db.query(Asset).filter(Asset.status == "active").all(), and
\* wards = db.query(Ward).all(): the ids
EntitiesOf(kind) ==
    IF kind = "calculate_all_asset_debts"
    THEN Map(SelectSeq(Assets, LAMBDA a : a.status = "active"), LAMBDA a : a.id)
    ELSE Wards

\* the failure of the run strikes the entity at the position
FaultAt(pos, how) == batch.fault # None /\ batch.fault[1] = [at |-> pos, how |-> how]

\* mutant: the debt tracking of the resolved issues is updated too
TrackedIssues_ResolvedToo(asset_id) ==
    Map(issues, LAMBDA i :
        IF i.asset_id = asset_id
        THEN update_issue_debt_tracking(i, calculate_issue_debt(i, Today))
        ELSE i)

\* the issues with the debt tracking of the open issues of the asset updated
TrackedIssues(asset_id) ==
    Map(issues, LAMBDA i :
        IF i.asset_id = asset_id /\ ~i.is_resolved
        THEN update_issue_debt_tracking(i, calculate_issue_debt(i, Today))
        ELSE i)

\* a task or an endpoint opens a session and calls the batch
StartBatch ==
    /\ batch.pc = "idle"
    /\ \E kind \in BatchKinds,
          \* a task of the worker or a refresh endpoint
          caller \in {"worker", "endpoint"},
          \* no failure, or the computation or the write of an entity fails
          fault \in {None} \cup { Some([at |-> at, how |-> how]) :
                                    at \in 1 .. 3, how \in {"computation", "write"} } :
           /\ batch.runs[kind] < MaxRuns
           /\ batch' = [batch EXCEPT !.pc = "entity", !.kind = kind, !.caller = caller,
                                     !.pos = 1, !.session = "active", !.fault = fault,
                                     !.outcomes = <<>>]
           /\ call' = [op |-> kind, caller |-> caller]
    /\ ret' = NoResult
    /\ UNCHANGED <<dataVars, storeVars, writers>>

\* except Exception as e: logger.error(...); the loop goes on
EntityFails(session) ==
    /\ batch' = [batch EXCEPT !.pos = @ + 1, !.session = session,
                              !.outcomes = Append(@, "error"), !.errors = @ + 1,
                              !.pc = IF batch.pos < Len(EntitiesOf(batch.kind))
                                     THEN "entity"
                                     ELSE IF batch.kind = "calculate_all_scores"
                                     THEN "city" ELSE "commit"]
    /\ UNCHANGED <<dataVars, storeVars>>

\* one pass of the loop over the assets or the wards, with its try and except
BatchEntity ==
    /\ batch.pc = "entity"
    /\ IF batch.session # "active" THEN EntityFails(batch.session)
       ELSE IF FaultAt(batch.pos, "computation") THEN EntityFails("active")
       ELSE IF FaultAt(batch.pos, "write") THEN EntityFails("inactive")
       ELSE /\ batch' = [batch EXCEPT !.pos = @ + 1,
                                      !.outcomes = Append(@, "ok"),
                                      !.pc = IF batch.pos < Len(EntitiesOf(batch.kind))
                                             THEN "entity"
                                             ELSE IF batch.kind = "calculate_all_scores"
                                             THEN "city" ELSE "commit"]
            /\ \E id \in { EntitiesOf(batch.kind)[batch.pos] } :
                   IF batch.kind = "calculate_all_asset_debts"
                   THEN /\ issues' = TrackedIssues(id)
                        /\ debt_snapshots' =
                               Upsert(debt_snapshots, ExistingDebtSnapshot(id, Today),
                                      DebtSnapshotFields(id, Today))
                        /\ UNCHANGED <<now, ward_scores, city_scores>>
                   ELSE /\ ward_scores' =
                               Upsert(ward_scores, ExistingWardScore(id, Today),
                                      WardScoreFields(id, Today,
                                          calculate_ward_score(id, Today)[1]))
                        /\ UNCHANGED <<dataVars, debt_snapshots, city_scores>>
    /\ UNCHANGED <<call, ret, writers>>

\* try: self.save_city_score("default", today), with its except
BatchCity ==
    /\ batch.pc = "city"
    /\ IF batch.session # "active"
       THEN /\ batch' = [batch EXCEPT !.pc = "commit", !.errors = @ + 1,
                                      !.outcomes = Append(@, "error")]
            /\ UNCHANGED city_scores
       ELSE /\ batch' = [batch EXCEPT !.pc = "commit", !.outcomes = Append(@, "ok")]
            /\ city_scores' =
                   Upsert(city_scores, ExistingCityScore("default", Today),
                          CityScoreFields("default", Today,
                              calculate_city_score("default", Today)))
    /\ UNCHANGED <<call, ret, dataVars, debt_snapshots, ward_scores, writers>>

\* what the caller reports: the task returns a status, or is retried when
\* the batch has raised; the endpoint answers with a message, or with an
\* internal server error when the batch has raised
Reported(caller, raised) ==
    IF caller = "worker"
    THEN IF raised THEN [kind |-> "task", status |-> "retry"]
         ELSE [kind |-> "task", status |-> "success", date |-> Today]
    ELSE IF raised THEN [kind |-> "response", status_code |-> 500]
         ELSE [kind |-> "response", status_code |-> 200,
               message |-> "refreshed successfully"]

\* the final self.db.commit() of the batch, and the return to the caller
BatchCommit ==
    /\ batch.pc = "commit"
    /\ batch' = [batch EXCEPT !.pc = "idle", !.session = "closed",
                              !.runs[batch.kind] = @ + 1]
    /\ ret' = Reported(batch.caller, batch.session # "active")
    /\ UNCHANGED <<call, dataVars, storeVars, writers>>

BatchInit ==
    /\ call = [op |-> "start"]
    /\ ret = NoResult
    /\ now = Datetime(TrendDay, HourOfDay)
    /\ issues = << NewIssue([ asset_id |-> 1, severity |-> "critical",
                              estimated_repair_cost |-> None, report_date |-> None ],
                            1, Datetime(0, HourOfDay)) >>
    /\ debt_snapshots = <<>>
    /\ ward_scores = <<>>
    /\ city_scores = <<>>
    /\ writers = <<>>
    /\ batch =
      [ pc |-> "idle", kind |-> "none", caller |-> "none", pos |-> 0,
        session |-> "active", fault |-> None, outcomes |-> <<>>, errors |-> 0,
        runs |-> [k \in BatchKinds |-> 0] ]

BatchNext ==
    \/ StartBatch
    \/ BatchEntity
    \/ BatchCity
    \/ BatchCommit

BatchSpec == BatchInit /\ [][BatchNext]_vars

(***************************************************************************)
(* What the specification says of the batch recompute.                     *)
(***************************************************************************)
\* a batch has returned to its caller, or has raised
BatchReturned == batch.pc = "idle" /\ batch.kind \in BatchKinds

\* the store holds the snapshot of today of the entity of the batch, as computed
HasSnapshotOfToday(kind, id) ==
    IF kind = "calculate_all_asset_debts"
    THEN RowsOf(debt_snapshots, LAMBDA s : <<s.asset_id, s.snapshot_date>>, <<id, Today>>)
             = <<DebtSnapshotFields(id, Today)>>
    ELSE RowsOf(ward_scores, LAMBDA s : <<s.ward_id, s.score_date>>, <<id, Today>>)
             = <<WardScoreFields(id, Today, calculate_ward_score(id, Today)[1])>>

(***************************************************************************)
(* C18.  Running the batch recompute (calculate_all_scores and             *)
(* calculate_all_asset_debts) again for the same date, with no change to   *)
(* assets, issues or wards and no failure, leaves the snapshot store as it *)
(* was after the first run: no step of the later run adds a row or changes *)
(* a stored value.                                                         *)
(***************************************************************************)
C18_RerunChangesNothing ==
    [][ ( /\ batch'.kind \in BatchKinds
          /\ batch.runs[batch'.kind] >= 1
          /\ batch'.errors = 0 ) => storeVars' = storeVars ]_vars

\* both batches have run twice without a failure
C18_Witness ==
    /\ BatchReturned
    /\ \A kind \in BatchKinds : batch.runs[kind] = MaxRuns
    /\ batch.errors = 0
    /\ Len(debt_snapshots) = 3
    /\ Len(ward_scores) = Len(Wards)
    /\ Len(city_scores) = 1
    /\ debt_snapshots[1].total_debt > 0

(***************************************************************************)
(* C19.  When the computation or the store write (the commit included) of  *)
(* one ward or asset fails during the batch recompute, every other ward    *)
(* and asset is still processed and has its snapshot of the date, and the  *)
(* city snapshot is still computed and saved.                              *)
(***************************************************************************)
C19_BatchSurvivesFailure ==
    (BatchReturned /\ batch.fault # None) =>
        /\ \A pos \in DOMAIN EntitiesOf(batch.kind) :
               pos # batch.fault[1].at =>
                   HasSnapshotOfToday(batch.kind, EntitiesOf(batch.kind)[pos])
        /\ batch.kind = "calculate_all_scores" =>
               RowsOf(city_scores, LAMBDA s : <<s.city_code, s.score_date>>,
                      <<"default", Today>>)
                   = <<CityScoreFields("default", Today,
                           calculate_city_score("default", Today))>>

(***************************************************************************)
(* C20.  When at least one entity fails during a batch recompute while     *)
(* others succeed, what the batch reports to its caller (the return value  *)
(* of the scheduled task, the response of the refresh endpoint) is         *)
(* distinguishable from the report of a run in which every entity          *)
(* succeeded.                                                              *)
(***************************************************************************)
C20_PartialSuccessReported ==
    ( /\ BatchReturned
      /\ \E k \in DOMAIN batch.outcomes : batch.outcomes[k] = "error"
      /\ \E k \in DOMAIN batch.outcomes : batch.outcomes[k] = "ok" ) =>
        ret # Reported(batch.caller, FALSE)

(***************************************************************************)
(* The simulation of future debt: DebtEngine.simulate_future_debt,         *)
(* DebtService.simulate_future_debt and POST /debt/simulate.               *)
(***************************************************************************)
\* the simulation runs at most this many days ahead
MaxFutureDays == 10

\* mutant: the simulation starts from tomorrow
simulate_future_debt_FromTomorrow(base_cost, report_date, asset_type, future_days, severity) ==
    [ n \in 1 .. future_days + 1 |->
        calculate_debt(base_cost, report_date, asset_type, PlusDays(Today, n), severity) ]

\* DebtEngine.simulate_future_debt: the result for day_offset is at day_offset + 1
simulate_future_debt(base_cost, report_date, asset_type, future_days, severity) ==
    [ n \in 1 .. future_days + 1 |->
        calculate_debt(base_cost, report_date, asset_type, PlusDays(Today, n - 1), severity) ]

\* DebtSimulationPoint for results[i]
DebtSimulationPoint(i, result) ==
    [ date |-> PlusDays(Today, i),
      day_offset |-> i,
      base_cost |-> result.base_cost,
      current_cost |-> result.current_cost,
      debt |-> result.maintenance_debt,
      multiplier |-> result.debt_multiplier,
      delay_days |-> result.delay_days,
      is_overdue |-> result.is_overdue ]

\* the date of the first of the points that are marked, or None
Milestone(points, marked) ==
    IF \E k \in DOMAIN points : marked[k]
    THEN Some(points[CHOOSE k \in DOMAIN points :
                         marked[k] /\ \A j \in 1 .. k - 1 : ~marked[j]].date)
    ELSE None

\* the parameters of the simulation: those of the issue or asset that the
\* request names, if it is found, and the defaults for what is still missing
SimulationParameters(req) ==
    LET by_issue == req.issue_id # None /\ req.issue_id[1] # 0
        by_asset == ~by_issue /\ req.asset_id # None /\ req.asset_id[1] # 0
        issue == IF by_issue /\ IssueExists(req.issue_id[1])
                 THEN Some(issues[req.issue_id[1]]) ELSE None
        asset == IF issue # None THEN Some(Assets[issue[1].asset_id])
                 ELSE IF by_asset /\ AssetExists(req.asset_id[1])
                 THEN Some(Assets[req.asset_id[1]]) ELSE None
        base_cost ==
            IF issue # None
            THEN Some(OrElse(req.base_cost,
                             OrElse(issue[1].estimated_repair_cost,
                                    asset[1].base_repair_cost)))
            ELSE IF asset # None
            THEN Some(OrElse(req.base_cost, asset[1].base_repair_cost))
            ELSE req.base_cost
        report_date ==
            IF issue # None /\ req.report_date = None
            THEN Some(AsDate(issue[1].report_date)) ELSE req.report_date
    IN  [ base_cost |-> OrElse(base_cost, Money(10000)),
          report_date |-> IF report_date # None THEN report_date[1] ELSE Today,
          asset_type |-> IF asset # None THEN asset[1].asset_type ELSE req.asset_type,
          severity |-> IF issue # None THEN issue[1].severity ELSE req.severity ]

DebtSimulationResponse(base_cost, results) ==
    Only({ [ simulation_points |-> points,
             starting_cost |-> base_cost,
             ending_cost |->
                 IF results # <<>> THEN results[Len(results)].current_cost ELSE base_cost,
             total_debt_accumulated |->
                 IF results # <<>> THEN results[Len(results)].maintenance_debt ELSE 0,
             max_multiplier |->
                 IF results # <<>>
                 THEN SeqMax([k \in DOMAIN results |-> results[k].debt_multiplier], SCALE)
                 ELSE SCALE,
             sla_breach_date |->
                 Milestone(points, [k \in DOMAIN results |-> results[k].is_overdue]),
             double_cost_date |->
                 Milestone(points,
                           [k \in DOMAIN results |-> results[k].debt_multiplier >= 2 * SCALE]),
             triple_cost_date |->
                 Milestone(points,
                           [k \in DOMAIN results |-> results[k].debt_multiplier >= 3 * SCALE]) ] :
        points \in { [k \in DOMAIN results |-> DebtSimulationPoint(k - 1, results[k])] } })

\* DebtService.simulate_future_debt
DebtService_simulate_future_debt(req) ==
    Only({ Only({ DebtSimulationResponse(p.base_cost, results) :
               results \in { simulate_future_debt(p.base_cost, p.report_date, p.asset_type,
                                                  req.future_days, p.severity) } }) :
           p \in { SimulationParameters(req) } })

\* the bodies of POST /debt/simulate: with or without an asset, an issue,
\* and a base cost and report date of their own
DebtSimulationRequests ==
    { [ asset_id |-> asset_id,
        issue_id |-> issue_id,
        base_cost |-> own[1],
        report_date |-> own[2],
        asset_type |-> "road",
        severity |-> "critical",
        future_days |-> future_days ] :
      asset_id \in {None, Some(2), Some(MissingId)},
      issue_id \in {None, Some(1), Some(MissingId)},
      own \in {<<None, None>>, <<Some(Money(500)), Some(Date(0))>>},
      future_days \in {0, MaxFutureDays} }

\* debt_engine.simulate_future_debt(...), called directly
SimulateFutureDebt ==
    \E base_cost \in {Money(500)}, report_date \in {Date(0), Datetime(30, 23)},
       asset_type \in {"streetlight", "canal"}, severity \in {"low", "critical"},
       future_days \in {0, 1, MaxFutureDays} :
        /\ call' = [op |-> "simulate_future_debt", base_cost |-> base_cost,
                    report_date |-> report_date, asset_type |-> asset_type,
                    future_days |-> future_days, severity |-> severity]
        /\ ret' = [kind |-> "debt_results",
                   value |-> simulate_future_debt(base_cost, report_date, asset_type,
                                                  future_days, severity)]
        /\ UNCHANGED serviceVars

\* POST /debt/simulate
SimulateDebt ==
    \E simulation_request \in DebtSimulationRequests :
        /\ call' = [op |-> "simulate_debt", simulation_request |-> simulation_request]
        /\ ret' = [kind |-> "simulation",
                   value |-> DebtService_simulate_future_debt(simulation_request)]
        /\ UNCHANGED serviceVars

(***************************************************************************)
(* Simulations and the queries by id, asked for as the days pass: issue 1  *)
(* is an open issue of the road, asset 2, reported on the first day, and   *)
(* issue 2 one of the sidewalk under maintenance, asset 5.                 *)
(***************************************************************************)
SimulationInit ==
    /\ call = [op |-> "start"]
    /\ ret = NoResult
    /\ now = Datetime(Days[1], HourOfDay)
    /\ issues = << NewIssue([ asset_id |-> 2, severity |-> "critical",
                              estimated_repair_cost |-> Some(Money(2000)),
                              report_date |-> None ],
                            1, Datetime(Days[1], HourOfDay)),
                   NewIssue([ asset_id |-> 5, severity |-> "critical",
                              estimated_repair_cost |-> None, report_date |-> None ],
                            2, Datetime(Days[1], HourOfDay)) >>
    /\ debt_snapshots = <<>>
    /\ ward_scores = <<>>
    /\ city_scores = <<>>
    /\ writers = <<>>
    /\ batch = NoResult

SimulationNext ==
    \/ Tick
    \/ SimulateFutureDebt
    \/ SimulateDebt
    \/ GetAssetMdiScore
    \/ CalculateWardScore

SimulationSpec == SimulationInit /\ [][SimulationNext]_vars

\* a simulation has returned
EngineSimulated == call.op = "simulate_future_debt" /\ ret.kind = "debt_results"
ServiceSimulated == call.op = "simulate_debt" /\ ret.kind = "simulation"

\* the fields of a simulation point, read off a debt result
PointOf(result) ==
    [ base_cost |-> result.base_cost,
      current_cost |-> result.current_cost,
      debt |-> result.maintenance_debt,
      multiplier |-> result.debt_multiplier,
      delay_days |-> result.delay_days,
      is_overdue |-> result.is_overdue ]

\* the fields of the point at offset k that the simulation has returned
ReturnedPoint(k) ==
    [ f \in DOMAIN PointOf(calculate_debt(0, Today, "road", Today, "low")) |->
        ret.value.simulation_points[k + 1][f] ]

(***************************************************************************)
(* C21.  For every future_days = n >= 0, simulate_future_debt returns      *)
(* exactly n + 1 results, and the k-th (k = 0..n) equals calculate_debt    *)
(* for the same base cost, report date, category and severity as of        *)
(* today + k.  The points of the service's simulation carry the same       *)
(* values: those of calculate_debt for the request's own parameters when   *)
(* it names no asset and no issue, and those of calculate_issue_debt for   *)
(* the issue when it names one and overrides nothing.                      *)
(***************************************************************************)
C21_SimulationIsCalculateDebt ==
    /\ EngineSimulated =>
           /\ Len(ret.value) = call.future_days + 1
           /\ \A k \in 0 .. call.future_days :
                  ret.value[k + 1] =
                      calculate_debt(call.base_cost, call.report_date, call.asset_type,
                                     PlusDays(Today, k), call.severity)
    /\ ServiceSimulated =>
           LET req == call.simulation_request
           IN  /\ Len(ret.value.simulation_points) = req.future_days + 1
               /\ \A k \in 0 .. req.future_days :
                      /\ ret.value.simulation_points[k + 1].day_offset = k
                      /\ ret.value.simulation_points[k + 1].date = PlusDays(Today, k)
               /\ (req.asset_id = None /\ req.issue_id = None
                       /\ req.base_cost # None /\ req.report_date # None) =>
                      \A k \in 0 .. req.future_days :
                          ReturnedPoint(k) =
                              PointOf(calculate_debt(req.base_cost[1], req.report_date[1],
                                                     req.asset_type, PlusDays(Today, k),
                                                     req.severity))
               /\ (req.issue_id = Some(1) /\ req.base_cost = None
                       /\ req.report_date = None) =>
                      \A k \in 0 .. req.future_days :
                          ReturnedPoint(k) =
                              PointOf(calculate_issue_debt(issues[1], PlusDays(Today, k)))

\* a simulation for the issue has run to the end of the range, past the day
\* the cost has tripled
C21_Witness ==
    /\ ServiceSimulated
    /\ call.simulation_request.issue_id = Some(1)
    /\ call.simulation_request.base_cost = None
    /\ call.simulation_request.future_days = MaxFutureDays
    /\ ret.value.triple_cost_date # None
    /\ ret.value.triple_cost_date # Some(Today)
    /\ ret.value.sla_breach_date # None

(***************************************************************************)
(* C22.  An operation that is given the id of an asset, issue or ward that *)
(* does not exist (asset score, ward score, simulation by asset_id or      *)
(* issue_id) yields a not-found outcome, and never a result computed from  *)
(* default values.                                                         *)
(***************************************************************************)
C22_NotFoundReported ==
    /\ (call.op = "get_asset_mdi_score" /\ ~AssetExists(call.asset_id)) =>
           ret.value = None
    /\ (call.op = "calculate_ward_score" /\ call.ward_id = MissingId) =>
           ret.value = None
    /\ (call.op = "simulate_debt"
            /\ LET req == call.simulation_request
               IN  \/ req.issue_id # None /\ ~IssueExists(req.issue_id[1])
                   \/ req.issue_id = None /\ req.asset_id # None
                          /\ ~AssetExists(req.asset_id[1])) =>
           ret.kind # "simulation"

\* calculate_ward_score has returned a score for the ward
WardScoreReturned ==
    call.op = "calculate_ward_score" /\ ret.kind = "ward_score" /\ ret.value # None

\* the ward has no asset whose status is active
NoActiveAsset(ward_id) ==
    \A k \in DOMAIN Assets : Assets[k].ward_id = ward_id => Assets[k].status # "active"

(***************************************************************************)
(* C23.  For every ward that exists and has no active asset (no assets at  *)
(* all, or only non-active ones), calculate_ward_score returns score 100,  *)
(* category "Excellent", total_debt 0, total_base_cost 0 and all asset,    *)
(* issue and delay counts 0.                                               *)
(***************************************************************************)
C23_EmptyWardIsPerfect ==
    (call.op = "calculate_ward_score"
         /\ (\E k \in DOMAIN Wards : Wards[k] = call.ward_id)
         /\ NoActiveAsset(call.ward_id)) =>
        /\ WardScoreReturned
        /\ ret.value[1].mdi_score = 100 * TENTHS
        /\ ret.value[1].score_category = "Excellent"
        /\ ret.value[1].total_debt = 0
        /\ ret.value[1].total_base_cost = 0
        /\ \A f \in {"total_assets", "assets_with_issues", "assets_overdue", "open_issues",
                     "overdue_issues", "critical_issues", "avg_delay_days",
                     "max_delay_days"} : ret.value[1][f] = 0

\* the score of ward 4 has been returned while the open issue of its only
\* asset, which is under maintenance, is overdue
C23_Witness ==
    /\ WardScoreReturned
    /\ call.ward_id = 4
    /\ \E k \in DOMAIN issues :
           /\ issues[k].asset_id = 5
           /\ ~issues[k].is_resolved
           /\ calculate_issue_debt(issues[k], Today).is_overdue

\* calculate_all_asset_debts has returned and none of its assets has failed
DebtBatchSucceeded ==
    /\ BatchReturned
    /\ batch.kind = "calculate_all_asset_debts"
    /\ batch.session = "closed"
    /\ ret = Reported(batch.caller, FALSE)
    /\ \A k \in DOMAIN batch.outcomes : batch.outcomes[k] = "ok"

\* the cached debt fields of the issue are those of the debt result
TrackingIs(issue, debt_result) ==
    /\ issue.current_delay_days = debt_result.delay_days
    /\ issue.current_debt_amount = debt_result.maintenance_debt
    /\ issue.current_debt_multiplier = debt_result.debt_multiplier
    /\ issue.expected_fix_date # None
    /\ AsDate(issue.expected_fix_date[1]) = debt_result.expected_fix_date

(***************************************************************************)
(* C24.  After calculate_all_asset_debts completes with no failure, for    *)
(* every unresolved issue of every active asset the cached fields          *)
(* current_delay_days, current_debt_amount, current_debt_multiplier and    *)
(* expected_fix_date equal the decay calculator's result for the issue as  *)
(* of the batch date, and each active asset has a snapshot for that date.  *)
(***************************************************************************)
C24_BatchTracksAndSnapshots ==
    DebtBatchSucceeded =>
        /\ \A k \in DOMAIN issues :
               (~issues[k].is_resolved /\ Assets[issues[k].asset_id].status = "active") =>
                   LET asset == Assets[issues[k].asset_id]
                   IN  TrackingIs(issues[k],
                           calculate_debt(
                               OrElse(issues[k].estimated_repair_cost,
                                      asset.base_repair_cost),
                               AsDate(issues[k].report_date), asset.asset_type,
                               Today, issues[k].severity))
        /\ \A a \in DOMAIN Assets :
               Assets[a].status = "active" =>
                   \E k \in DOMAIN debt_snapshots :
                       /\ debt_snapshots[k].asset_id = a
                       /\ debt_snapshots[k].snapshot_date = Today

\* the debt batch has succeeded with an open issue that was not overdue when
\* it was reported and now is
C24_Witness ==
    /\ DebtBatchSucceeded
    /\ \E k \in DOMAIN issues :
           /\ ~issues[k].is_resolved
           /\ Assets[issues[k].asset_id].status = "active"
           /\ issues[k].current_delay_days > 0
           /\ issues[k].current_debt_multiplier > SCALE

(***************************************************************************)
(* The operations that write issues: the issue routes and the refresh      *)
(* routes of api/routes/debt.py, as the days pass.  Issue 1 is an          *)
(* issue of the drain, asset 3, whose expected fix date is the first of    *)
(* the days.                                                               *)
(***************************************************************************)
\* POST /debt/refresh/{asset_id}
RefreshAssetDebt ==
    \E asset_id \in {3, 4, MissingId} :
        /\ call' = [op |-> "refresh_asset_debt", asset_id |-> asset_id]
        /\ IF ~AssetExists(asset_id)
           THEN /\ ret' = HTTPException(404)
                /\ UNCHANGED <<issues, debt_snapshots>>
           ELSE \E snapshot \in { DebtSnapshotFields(asset_id, Today) } :
                /\ issues' = TrackedIssues(asset_id)
                /\ debt_snapshots' =
                       Upsert(debt_snapshots, ExistingDebtSnapshot(asset_id, Today), snapshot)
                /\ ret' = [kind |-> "refreshed", asset_id |-> asset_id,
                           total_debt |-> snapshot.total_debt,
                           mdi_score |-> snapshot.mdi_score]
        /\ UNCHANGED <<now, ward_scores, city_scores, writers, batch>>

\* POST /debt/refresh-all: calculate_all_asset_debts in a run without failure
RefreshAllDebts ==
    /\ call' = [op |-> "refresh_all_debts"]
    /\ issues' =
           Map(issues, LAMBDA i :
               IF Assets[i.asset_id].status = "active" /\ ~i.is_resolved
               THEN update_issue_debt_tracking(i, calculate_issue_debt(i, Today))
               ELSE i)
    /\ \E assets \in { EntitiesOf("calculate_all_asset_debts") } :
           debt_snapshots' =
               LET saved[n \in 0 .. Len(assets)] ==
                       IF n = 0 THEN debt_snapshots
                       ELSE Upsert(saved[n - 1], ExistingDebtSnapshot(assets[n], Today),
                                   DebtSnapshotFields(assets[n], Today))
               IN  saved[Len(assets)]
    /\ ret' = Reported("endpoint", FALSE)
    /\ UNCHANGED <<now, ward_scores, city_scores, writers, batch>>

ServiceInit ==
    /\ call = [op |-> "start"]
    /\ ret = NoResult
    /\ now = Datetime(Days[1], HourOfDay)
    /\ issues = << NewIssue([ asset_id |-> 3, severity |-> "critical",
                              estimated_repair_cost |-> None, report_date |-> None ],
                            1, Datetime(Days[1] - SLA_DRAIN_DAYS, HourOfDay)) >>
    /\ debt_snapshots = <<>>
    /\ ward_scores = <<>>
    /\ city_scores = <<>>
    /\ writers = <<>>
    /\ batch = NoResult

ServiceNext ==
    \/ UpdateIssue
    \/ ResolveIssue
    \/ Tick
    \/ RefreshAssetDebt
    \/ RefreshAllDebts

ServiceSpec == ServiceInit /\ [][ServiceNext]_vars

(***************************************************************************)
(* C25.  Once an issue is resolved it stays resolved and its facts are     *)
(* frozen: no step (an update, a second resolve, a manual refresh, a batch *)
(* recompute) changes its is_resolved flag, severity, cost estimate,       *)
(* report date, resolution date or cached debt fields; and an update or    *)
(* resolve request on a resolved issue is rejected with an error and       *)
(* leaves the state unchanged.                                             *)
(***************************************************************************)
C25_ResolvedIsFrozen ==
    [][ /\ \A k \in DOMAIN issues :
               issues[k].is_resolved => (k \in DOMAIN issues' /\ issues'[k] = issues[k])
        /\ ( /\ call'.op \in {"update_issue", "resolve_issue"}
             /\ IssueExists(call'.issue_id)
             /\ issues[call'.issue_id].is_resolved ) =>
               /\ ret' = HTTPException(400)
               /\ serviceVars' = serviceVars ]_vars

\* the debts of the asset of a resolved issue have been refreshed on a day
\* on which the issue, were it open, would have another delay than the one
\* cached when it was resolved
C25_Witness ==
    /\ call.op \in {"refresh_asset_debt", "refresh_all_debts"}
    /\ ret # HTTPException(404)
    /\ \E k \in DOMAIN issues :
           /\ issues[k].is_resolved
           /\ call.op = "refresh_asset_debt" => issues[k].asset_id = call.asset_id
           /\ Assets[issues[k].asset_id].status = "active"
           /\ issues[k].resolution_date = Some(Datetime(Days[1], HourOfDay))
           /\ calculate_issue_debt(issues[k], Today).delay_days
                  # issues[k].current_delay_days

(***************************************************************************)
(* The queries: the debt summaries of api/routes/debt.py beside the scores *)
(* of the aggregation service, asked for between manual refreshes as the   *)
(* days pass.  Issue 1 is an issue of the drain, asset 3, whose expected   *)
(* fix date is the first of the days; issue 2 one of the decommissioned    *)
(* bridge, asset 4, of the same ward.                                      *)
(***************************************************************************)
\* DebtService.get_asset_debt: None when there is no such asset
get_asset_debt(asset_id) ==
    IF ~AssetExists(asset_id) THEN None
    ELSE Only({ Some([ asset_id |-> asset_id,
                       asset_type |-> Assets[asset_id].asset_type,
                       total_base_cost |-> debt.total_base_cost,
                       total_current_cost |-> debt.total_base_cost + debt.total_debt,
                       total_debt |-> debt.total_debt,
                       avg_debt_multiplier |->
                           IF debt.issue_debts # <<>>
                           THEN RoundDiv(SumField(debt.issue_debts, "debt_multiplier"),
                                         Len(debt.issue_debts))
                           ELSE SCALE,
                       open_issues |-> Len(debt.issue_debts),
                       overdue_issues |-> Len(OverdueDelays(debt.issue_debts)),
                       max_delay_days |-> SeqMax(OverdueDelays(debt.issue_debts), 0),
                       avg_delay_days |->
                           IF OverdueDelays(debt.issue_debts) # <<>>
                           THEN Average(OverdueDelays(debt.issue_debts)) ELSE 0,
                       issue_debts |-> debt.issue_debts ]) :
                debt \in { calculate_asset_debt(asset_id, Today) } })

\* the summary that get_ward_debt and get_city_debt build for a ward:
\* assets = db.query(Asset).filter(Asset.ward_id == ward_id).all()
WardDebtSummary(ward_id) ==
    Only({ [ ward_id |-> ward_id,
             total_assets |-> Len(debts),
             total_debt |-> SumField(debts, "total_debt"),
             total_base_cost |-> SumField(debts, "total_base_cost"),
             assets_with_debt |-> Len(SelectSeq(debts, LAMBDA d : d.total_debt > 0)),
             avg_debt_per_asset |->
                 IF debts # <<>>
                 THEN RoundDiv(SumField(debts, "total_debt"), Len(debts)) ELSE 0,
             highest_debt_asset_id |->
                 First(Map(SelectSeq(debts, LAMBDA d :
                               /\ d.total_debt > 0
                               /\ \A k \in DOMAIN debts : debts[k].total_debt <= d.total_debt),
                           LAMBDA d : d.asset_id)),
             highest_debt_amount |->
                 SeqMax(Map(debts, LAMBDA d : d.total_debt) \o <<0>>, 0) ] :
        debts \in { Map(SelectSeq(Assets, LAMBDA a : a.ward_id = ward_id),
                        LAMBDA a : get_asset_debt(a.id)[1]) } })

\* GET /debt/asset/{asset_id}
GetAssetDebt ==
    \E asset_id \in {3, 4, MissingId} :
        /\ call' = [op |-> "get_asset_debt", asset_id |-> asset_id]
        /\ ret' = IF get_asset_debt(asset_id) = None THEN HTTPException(404)
                  ELSE [kind |-> "debt_response", value |-> get_asset_debt(asset_id)[1]]
        /\ UNCHANGED serviceVars

\* GET /debt/ward/{ward_id}
GetWardDebt ==
    \E ward_id \in {1, 2, 3, 4, MissingId} :
        /\ call' = [op |-> "get_ward_debt", ward_id |-> ward_id]
        /\ ret' = IF \A k \in DOMAIN Wards : Wards[k] # ward_id THEN HTTPException(404)
                  ELSE [kind |-> "ward_debt", value |-> WardDebtSummary(ward_id)]
        /\ UNCHANGED serviceVars

\* GET /debt/city
GetCityDebt ==
    /\ call' = [op |-> "get_city_debt"]
    /\ \E ward_summaries \in { Map(Wards, LAMBDA w : WardDebtSummary(w)) } :
       \E sorted_by_debt \in { SortedBy(ward_summaries, LAMBDA w : w.total_debt, TRUE) } :
           ret' = [ kind |-> "city_debt",
                    value |->
                        [ total_wards |-> Len(Wards),
                          total_assets |-> SumField(ward_summaries, "total_assets"),
                          total_debt |-> SumField(ward_summaries, "total_debt"),
                          total_base_cost |-> SumField(ward_summaries, "total_base_cost"),
                          ward_summaries |-> ward_summaries,
                          worst_wards |-> SubSeq(sorted_by_debt, 1, Min(5, Len(sorted_by_debt))),
                          best_wards |->
                              [ k \in 1 .. Min(5, Len(sorted_by_debt)) |->
                                  sorted_by_debt[Len(sorted_by_debt) + 1 - k] ] ] ]
    /\ UNCHANGED serviceVars

(***************************************************************************)
(* api/routes/scores.py: the ranks of the wards.                           *)
(***************************************************************************)
\* get_ward_score: the wards' (id, score) sorted by score descending, and
\* the position of the ward among them, or None
CityRank(ward_id) ==
    Only({ First(SelectSeq([k \in DOMAIN ward_scores_ |-> k],
                           LAMBDA k : ward_scores_[k].ward_id = ward_id)) :
           ward_scores_ \in { SortedBy(CityWardScores(Today),
                                       LAMBDA w : w.mdi_score, TRUE) } })

\* GET /scores/ward/{ward_id}
GetWardScore ==
    \E ward_id \in {1, 2, 3, 4, MissingId} :
        /\ call' = [op |-> "get_ward_score", ward_id |-> ward_id]
        /\ \E score \in { calculate_ward_score(ward_id, Today) } :
               ret' = IF score = None THEN HTTPException(404)
                      ELSE [ kind |-> "ward_score",
                             value |-> score[1],
                             city_rank |-> CityRank(ward_id),
                             total_wards |-> Len(CityWardScores(Today)) ]
        /\ UNCHANGED serviceVars

\* GET /scores/wards: the scores in the order asked for, each with its
\* city_rank
GetAllWardScores ==
    \E sort_by \in {"score", "debt"}, order \in {"asc", "desc"} :
        /\ call' = [op |-> "get_all_ward_scores", sort_by |-> sort_by, order |-> order]
        /\ \E reverse \in { order = "desc" } :
           \E scores \in { IF sort_by = "score"
                           THEN SortedBy(CityWardScores(Today),
                                         LAMBDA s : s.mdi_score, reverse)
                           ELSE SortedBy(CityWardScores(Today),
                                         LAMBDA s : s.total_debt, reverse) } :
               ret' = [ kind |-> "ward_scores",
                        value |->
                            [ i \in DOMAIN scores |->
                                [ ward_id |-> scores[i].ward_id,
                                  mdi_score |-> scores[i].mdi_score,
                                  total_debt |-> scores[i].total_debt,
                                  city_rank |->
                                      IF ~reverse THEN i ELSE Len(scores) - (i - 1),
                                  total_wards |-> Len(scores) ] ] ]
        /\ UNCHANGED serviceVars

\* GET /issues/summary, for all the wards or for one
GetIssueSummary ==
    \E ward_id \in {None, Some(2)} :
        /\ call' = [op |-> "get_issue_summary", ward_id |-> ward_id]
        /\ \E all_issues \in
               { SelectSeq(issues, LAMBDA i :
                     ward_id # None => Assets[i.asset_id].ward_id = ward_id[1]) } :
           \E delay_days \in
               { Map(SelectSeq(all_issues, LAMBDA i : i.current_delay_days > 0),
                     LAMBDA i : i.current_delay_days) } :
               ret' = [ kind |-> "issue_summary",
                        value |->
                            [ total_issues |-> Len(all_issues),
                              open_issues |->
                                  Len(SelectSeq(all_issues, LAMBDA i : ~i.is_resolved)),
                              resolved_issues |->
                                  Len(SelectSeq(all_issues, LAMBDA i : i.is_resolved)),
                              overdue_issues |->
                                  Len(SelectSeq(all_issues, Issue_is_overdue)),
                              critical_issues |->
                                  Len(SelectSeq(all_issues, LAMBDA i :
                                          ~i.is_resolved /\ i.severity = "critical")),
                              total_debt |->
                                  SeqSum(Map(SelectSeq(all_issues, LAMBDA i : ~i.is_resolved),
                                             LAMBDA i : i.current_debt_amount)),
                              avg_delay_days |->
                                  IF delay_days # <<>> THEN Average(delay_days) ELSE 0 ] ]
        /\ UNCHANGED serviceVars

QueryInit ==
    /\ call = [op |-> "start"]
    /\ ret = NoResult
    /\ now = Datetime(Days[1], HourOfDay)
    /\ issues = << NewIssue([ asset_id |-> 3, severity |-> "critical",
                              estimated_repair_cost |-> None, report_date |-> None ],
                            1, Datetime(Days[1] - SLA_DRAIN_DAYS, HourOfDay)),
                   NewIssue([ asset_id |-> 4, severity |-> "critical",
                              estimated_repair_cost |-> None, report_date |-> None ],
                            2, Datetime(Days[1] - SLA_DRAIN_DAYS, HourOfDay)) >>
    /\ debt_snapshots = <<>>
    /\ ward_scores = <<>>
    /\ city_scores = <<>>
    /\ writers = <<>>
    /\ batch = NoResult

QueryNext ==
    \/ Tick
    \/ RefreshAssetDebt
    \/ CalculateAssetDebt
    \/ GetAssetDebt
    \/ GetWardDebt
    \/ GetCityDebt
    \/ GetAssetMdiScore
    \/ CalculateWardScore
    \/ CalculateCityScore
    \/ SimulateDebt
    \/ GetWardScore
    \/ GetAllWardScores
    \/ GetIssueSummary

QuerySpec == QueryInit /\ [][QueryNext]_vars

(***************************************************************************)
(* C26.  Every ward-level debt total sums only the ward's active assets:   *)
(* for every ward and day, the total_debt and total_base_cost of the ward  *)
(* debt summary (get_ward_debt, and the per-ward entries of get_city_debt) *)
(* equal those of calculate_ward_score, whatever the status of the ward's  *)
(* assets.                                                                 *)
(***************************************************************************)
C26_WardDebtIsWardScoreDebt ==
    /\ (call.op = "get_ward_debt" /\ ret.kind = "ward_debt") =>
           /\ ret.value.total_debt =
                  calculate_ward_score(call.ward_id, Today)[1].total_debt
           /\ ret.value.total_base_cost =
                  calculate_ward_score(call.ward_id, Today)[1].total_base_cost
    /\ (call.op = "get_city_debt" /\ ret.kind = "city_debt") =>
           \A k \in DOMAIN ret.value.ward_summaries :
               LET summary == ret.value.ward_summaries[k]
               IN  /\ summary.total_debt =
                          calculate_ward_score(summary.ward_id, Today)[1].total_debt
                   /\ summary.total_base_cost =
                          calculate_ward_score(summary.ward_id, Today)[1].total_base_cost

\* the operations that only read
ReadOperations ==
    {"calculate_asset_debt", "get_asset_debt", "get_ward_debt", "get_city_debt",
     "get_asset_mdi_score", "calculate_ward_score", "calculate_city_score",
     "simulate_debt"}

\* the cached tracking fields of the issues
TrackingFields(table) ==
    [ k \in DOMAIN table |->
        <<table[k].current_delay_days, table[k].current_debt_amount,
          table[k].current_debt_multiplier, table[k].expected_fix_date>> ]

(***************************************************************************)
(* C27.  The read-side operations (the debt of an issue and of an asset,   *)
(* get_asset_debt, get_asset_mdi_score, calculate_ward_score,              *)
(* calculate_city_score, simulate_future_debt and the debt summaries built *)
(* on them) leave every issue's cached tracking fields and every snapshot  *)
(* row (asset, ward, city) unchanged; a step that changes any of them is a *)
(* step of an operation that calls update_issue_debt_tracking or saves a   *)
(* snapshot.                                                               *)
(***************************************************************************)
C27_ReadsWriteNothing ==
    [][ /\ call'.op \in ReadOperations =>
               (issues' = issues /\ storeVars' = storeVars)
        /\ (TrackingFields(issues') # TrackingFields(issues) \/ storeVars' # storeVars) =>
               call'.op = "refresh_asset_debt" ]_vars

\* the debt of the drain has been read on a day on which it is above the
\* amount cached with its issue, with a snapshot of an earlier day in store
C27_Witness ==
    /\ call.op = "get_asset_debt"
    /\ ret.kind = "debt_response"
    /\ call.asset_id = 3
    /\ ret.value.total_debt > 0
    /\ issues[1].current_debt_amount = 0
    /\ debt_snapshots # <<>>

(***************************************************************************)
(* Old issues: the two issues of ward 1 were reported long enough ago for  *)
(* their multipliers to be capped, the streetlight's by the first of the   *)
(* days and the road's by the second.                                      *)
(***************************************************************************)
\* the issues were reported this many days before the first of the days
IssueAge == 80

OldIssuesInit ==
    /\ call = [op |-> "start"]
    /\ ret = NoResult
    /\ now = Datetime(Days[1], HourOfDay)
    /\ issues = << NewIssue([ asset_id |-> 1, severity |-> "critical",
                              estimated_repair_cost |-> None, report_date |-> None ],
                            1, Datetime(Days[1] - IssueAge, HourOfDay)),
                   NewIssue([ asset_id |-> 2, severity |-> "critical",
                              estimated_repair_cost |-> Some(Money(2000)),
                              report_date |-> None ],
                            2, Datetime(Days[1] - IssueAge, HourOfDay)) >>
    /\ debt_snapshots = <<>>
    /\ ward_scores = <<>>
    /\ city_scores = <<>>
    /\ writers = <<>>
    /\ batch = NoResult

OldIssuesNext ==
    \/ Tick
    \/ ResolveIssue
    \/ CalculateAssetDebt
    \/ CalculateWardScore
    \/ CalculateCityScore

OldIssuesSpec == OldIssuesInit /\ [][OldIssuesNext]_vars

\* the totals that a debt or score operation has returned
TotalsReturned ==
    \/ call.op = "calculate_asset_debt"
    \/ call.op = "calculate_ward_score" /\ ret.value # None
    \/ call.op = "calculate_city_score"

ReturnedTotals ==
    IF call.op = "calculate_ward_score" THEN ret.value[1] ELSE ret.value

\* the open issues that the returned totals add up
IssuesInTotals ==
    SelectSeq(issues, LAMBDA i :
        /\ ~i.is_resolved
        /\ Assets[i.asset_id].status = "active"
        /\ call.op = "calculate_asset_debt" => i.asset_id = call.asset_id
        /\ call.op = "calculate_ward_score" => Assets[i.asset_id].ward_id = call.ward_id)

\* max_multiplier - 1: the most debt per unit of base cost
MaxDebtRatio == (max_multiplier - SCALE) \div SCALE

C29_OneCityRank ==
    /\ (call.op = "get_all_ward_scores" /\ call.sort_by = "score") =>
           \A i \in DOMAIN ret.value :
               /\ Some(ret.value[i].city_rank) = CityRank(ret.value[i].ward_id)
               /\ ret.value[i].city_rank = 1 =>
                      \A j \in DOMAIN ret.value :
                          ret.value[j].mdi_score <= ret.value[i].mdi_score
    /\ (call.op = "get_ward_score" /\ ret.kind = "ward_score") =>
           /\ ret.city_rank = CityRank(call.ward_id)
           /\ ret.city_rank = Some(1) =>
                  \A k \in DOMAIN Wards :
                      calculate_ward_score(Wards[k], Today)[1].mdi_score
                          <= ret.value.mdi_score
    /\ call.op = "calculate_city_score" =>
           /\ \A k \in DOMAIN ret.value.top_wards :
                  Some(ret.value.top_wards[k].rank)
                      = CityRank(ret.value.top_wards[k].ward_id)
           /\ \A k \in DOMAIN ret.value.bottom_wards :
                  Some(ret.value.bottom_wards[k].rank)
                      = CityRank(ret.value.bottom_wards[k].ward_id)

(***************************************************************************)
(* C30.  At every instant, for an unresolved issue whose tracking fields   *)
(* have been written back, the is_overdue flag of the issue record (used   *)
(* by the issue listing, filter and summary) equals the is_overdue of the  *)
(* decay calculator for the current date: the summary counts as overdue    *)
(* the open issues that the calculator reports overdue, and on the         *)
(* expected fix date itself both report the issue as not overdue.          *)
(***************************************************************************)
C30_RecordOverdueIsCalculatorOverdue ==
    /\ \A k \in DOMAIN issues :
           ~issues[k].is_resolved =>
               Issue_is_overdue(issues[k])
                   = calculate_issue_debt(issues[k], Today).is_overdue
    /\ (call.op = "get_issue_summary" /\ call.ward_id = None) =>
           ret.value.overdue_issues =
               Len(SelectSeq(issues, LAMBDA i :
                       ~i.is_resolved /\ calculate_issue_debt(i, Today).is_overdue))

====
